---- MODULE Spec2Model ----
(***************************************************************************)
(* Texas Hold'em game server: the hand state machine (Game), its seats     *)
(* (Player), the deck, the hand evaluator, the JSON form kept in the       *)
(* cache, and the server handlers that load, mutate and save a Game.       *)
(*                                                                         *)
(* Indices (dealerIndex, currentPlayerIndex, ...) are 0-based as in the    *)
(* source; the player at index i is players[i + 1].                        *)
(***************************************************************************)
EXTENDS Integers, Sequences, FiniteSets, TLC

(***************************************************************************)
(* Bounds of the model.                                                    *)
(***************************************************************************)
\* chip amounts a client may send with bet / raise: 1 .. MaxAmount
MaxAmount == 2
\* pairs of hole cards dealt at one table over all its hands: two hands
\* heads-up, one hand three-handed
MaxDeals == 4
\* number of shuffle outcomes considered by startHand
NumShuffles == 2
\* largest clock value, in units of the action timeout
MaxNow == 2
\* chips in the stacks beyond those brought to the table above which no
\* further call is explored
MaxSurplus == 0
\* number of handler invocations that may be in flight in the server model
MaxOps == 2
\* number of seats taken at a table of the model
MaxPlayers == 3

(***************************************************************************)
(* Card, Deck                                                              *)
(***************************************************************************)
Suits == <<"hearts", "diamonds", "clubs", "spades">>
Ranks == <<"2", "3", "4", "5", "6", "7", "8", "9", "10", "J", "Q", "K", "A">>

\* new Card(suit, rank): the first argument becomes .suit, the second .rank
Card(suit, rank) == [suit |-> suit, rank |-> rank]

\* a sequence given by its elements, as an explicit tuple
Tup(f) == f \o <<>>

\* the table of Card.getValue()
RankValues ==
  ("2" :> 2) @@ ("3" :> 3) @@ ("4" :> 4) @@ ("5" :> 5) @@ ("6" :> 6) @@ ("7" :> 7) @@
  ("8" :> 8) @@ ("9" :> 9) @@ ("10" :> 10) @@ ("J" :> 11) @@ ("Q" :> 12) @@ ("K" :> 13) @@
  ("A" :> 14)

\* Card.getValue(): values[this.rank]; a rank that is no key of the table
\* gives undefined, which is modelled as 0 (undefined || 0 in compareHands,
\* NaN in every arithmetic comparison of the evaluator)
GetValue(c) == IF c.rank \in DOMAIN RankValues THEN RankValues[c.rank] ELSE 0

\* Deck.reset(): suits outer loop, ranks inner loop
ResetDeck ==
  Tup([i \in 1..52 |-> Card(Suits[((i - 1) \div 13) + 1], Ranks[((i - 1) % 13) + 1])])

\* Deck.shuffle(): a permutation of the 52 cards.  The k-th outcome considered
\* is the permutation i -> (i * m) mod 53 (53 is prime): m = 1 leaves the
\* deck in reset order, m = 52 reverses it.  Heads-up the first deal is
\* won by the first seat and the second by the second seat; three-handed the
\* second deal is a tie between the first and the third seat.
ShuffleMult(k) == IF k = 1 THEN 1 ELSE IF k = 2 THEN 10 ELSE IF k = 3 THEN 52 ELSE k + 6
Shuffle(k) == Tup([i \in 1..52 |-> ResetDeck[(i * ShuffleMult(k)) % 53]])

\* Deck.deal() pops the last card; dealMultiple(n) collects n pops in order
DealMultiple(deck, n) == Tup([i \in 1..n |-> deck[Len(deck) + 1 - i]])
AfterDeal(deck, n) == SubSeq(deck, 1, Len(deck) - n)
\* Deck.burn(): pops one card if there is one
Burn(deck) == IF Len(deck) > 0 THEN SubSeq(deck, 1, Len(deck) - 1) ELSE deck

(***************************************************************************)
(* HandEvaluator                                                           *)
(***************************************************************************)
ROYAL_FLUSH == 10
STRAIGHT_FLUSH == 9
FOUR_OF_A_KIND == 8
FULL_HOUSE == 7
FLUSH == 6
STRAIGHT == 5
THREE_OF_A_KIND == 4
TWO_PAIR == 3
ONE_PAIR == 2
HIGH_CARD == 1

RECURSIVE SortDesc(_)
\* [...].sort((a, b) => b - a) on a sequence of numbers
SortDesc(s) ==
  IF \A i \in 1..(Len(s) - 1) : s[i] >= s[i + 1] THEN s
  ELSE LET m == CHOOSE i \in 1..Len(s) : \A j \in 1..Len(s) : s[i] >= s[j]
           rest == Tup([k \in 1..(Len(s) - 1) |-> IF k < m THEN s[k] ELSE s[k + 1]])
       IN  <<s[m]>> \o SortDesc(rest)

SeqFilter(s, Keep(_)) == SelectSeq(s, Keep)

IsFlush(cards) == \A i \in 1..Len(cards) : cards[i].suit = cards[1].suit

\* isStraight on the values sorted descending; a value of 0 (undefined) makes
\* every difference NaN, so neither test succeeds
IsStraight(v) ==
  LET regular == \A i \in 1..(Len(v) - 1) : v[i] # 0 /\ v[i + 1] # 0 /\ v[i] - v[i + 1] = 1
      wheel == v[1] = 14 /\ v[2] = 5 /\ v[3] = 4 /\ v[4] = 3 /\ v[5] = 2
  IN  regular \/ wheel

\* groupByRank: number of cards per value
GroupCount(v, x) == Cardinality({i \in 1..Len(v) : v[i] = x})
GroupKeys(v) == {v[i] : i \in 1..Len(v)}

\* Object.keys(groups).find(k => groups[k].length === n): keys are visited in
\* ascending numeric order
FirstKeyOfSize(v, n) ==
  LET ks == {x \in GroupKeys(v) : GroupCount(v, x) = n}
  IN  CHOOSE x \in ks : \A y \in ks : x <= y

\* The classification of evaluate5Cards on the values sorted descending and
\* the flush test.  groupSizes (the group lengths sorted descending) is read
\* through its first two entries only: [0] = 4, [0] = 3 and [1] = 2,
\* [0] = 3, [0] = 2 and [1] = 2, [0] = 2; big is groupSizes[0] and pairs the
\* values whose group has length 2.
Classify(v, isFlush, isStraight, big, pairs) ==
  IF isFlush /\ isStraight
    THEN [rank |-> IF v[1] = 14 THEN ROYAL_FLUSH ELSE STRAIGHT_FLUSH,
          tiebreakers |-> <<v[1]>>]
  ELSE IF big = 4
    THEN [rank |-> FOUR_OF_A_KIND,
          tiebreakers |-> <<FirstKeyOfSize(v, 4),
                            SeqFilter(v, LAMBDA x : x # FirstKeyOfSize(v, 4))[1]>>]
  ELSE IF big = 3 /\ pairs # {}
    THEN [rank |-> FULL_HOUSE,
          tiebreakers |-> <<FirstKeyOfSize(v, 3), FirstKeyOfSize(v, 2)>>]
  ELSE IF isFlush
    THEN [rank |-> FLUSH, tiebreakers |-> v]
  ELSE IF isStraight
    THEN [rank |-> STRAIGHT, tiebreakers |-> <<v[1]>>]
  ELSE IF big = 3
    THEN [rank |-> THREE_OF_A_KIND,
          tiebreakers |-> <<FirstKeyOfSize(v, 3)>>
                            \o SeqFilter(v, LAMBDA x : x # FirstKeyOfSize(v, 3))]
  ELSE IF big = 2 /\ Cardinality(pairs) = 2
    THEN [rank |-> TWO_PAIR,
          tiebreakers |-> <<CHOOSE x \in pairs : \A y \in pairs : x >= y,
                            CHOOSE x \in pairs : \A y \in pairs : x <= y,
                            SeqFilter(v, LAMBDA x : x \notin pairs)[1]>>]
  ELSE IF big = 2
    THEN [rank |-> ONE_PAIR,
          tiebreakers |-> <<FirstKeyOfSize(v, 2)>>
                            \o SeqFilter(v, LAMBDA x : x # FirstKeyOfSize(v, 2))]
  ELSE [rank |-> HIGH_CARD, tiebreakers |-> v]

\* groupSizes[0]: the largest number of cards of one value
LargestGroup(v) ==
  CHOOSE n \in 1..5 : /\ \E x \in GroupKeys(v) : GroupCount(v, x) = n
                      /\ \A x \in GroupKeys(v) : GroupCount(v, x) <= n

\* evaluate5Cards on the values sorted descending
EvaluateValues(v, isFlush) ==
  Classify(v, isFlush, IsStraight(v), LargestGroup(v),
           {x \in GroupKeys(v) : GroupCount(v, x) = 2})

\* evaluate5Cards
Evaluate5Cards(cards) ==
  EvaluateValues(SortDesc(Tup([i \in 1..5 |-> GetValue(cards[i])])), IsFlush(cards))

RECURSIVE CompareTiebreakers(_, _, _)
CompareTiebreakers(t1, t2, i) ==
  IF i > Len(t1) /\ i > Len(t2) THEN 0
  ELSE LET tb1 == IF i <= Len(t1) THEN t1[i] ELSE 0
           tb2 == IF i <= Len(t2) THEN t2[i] ELSE 0
       IN  IF tb1 # tb2 THEN tb1 - tb2 ELSE CompareTiebreakers(t1, t2, i + 1)

\* compareHands: positive if hand1 wins, negative if hand2 wins, 0 for a tie
CompareHands(h1, h2) ==
  IF h1.rank # h2.rank THEN h1.rank - h2.rank
  ELSE CompareTiebreakers(h1.tiebreakers, h2.tiebreakers, 1)

\* getCombinations(arr, 5): the index sets of the 5-element sub-sequences of
\* a sequence of n cards
CombinationIndices == [n \in 5..7 |-> {s \in SUBSET (1..n) : Cardinality(s) = 5}]

\* the sub-sequence of cards at the index set s, in index order
SubSequence(cards, s) ==
  LET pos == Tup([k \in 1..Cardinality(s) |->
                    CHOOSE x \in s : Cardinality({y \in s : y < x}) = k - 1])
  IN  Tup([k \in 1..Cardinality(s) |-> cards[pos[k]]])

GetCombinations(cards) == {SubSequence(cards, s) : s \in CombinationIndices[Len(cards)]}

\* the first evaluation that no other one beats
BestEvaluation(evals) == CHOOSE e \in evals : \A f \in evals : CompareHands(e, f) >= 0

\* evaluateHand: the best evaluation over all 5-card combinations (only rank
\* and tiebreakers are used by the callers)
EvaluateHand(cards) == BestEvaluation({Evaluate5Cards(c) : c \in GetCombinations(cards)})

(***************************************************************************)
(* Player                                                                  *)
(***************************************************************************)
NewPlayer(id, initialStack, seatNumber) ==
  [id |-> id, stack |-> initialStack, currentBet |-> 0, totalBetThisRound |-> 0,
   holeCards |-> <<>>, hasFolded |-> FALSE, isAllIn |-> FALSE, isActive |-> TRUE,
   seatNumber |-> seatNumber]

\* Player.bet(amount): the player after the call and the chips wagered;
\* a negative amount throws before anything is changed
PlayerBet(p, amount) ==
  IF amount < 0 THEN [p |-> p, paid |-> 0, threw |-> TRUE]
  ELSE IF amount >= p.stack
    THEN [p |-> [p EXCEPT !.currentBet = @ + p.stack,
                          !.totalBetThisRound = @ + p.stack,
                          !.stack = 0,
                          !.isAllIn = TRUE],
          paid |-> p.stack, threw |-> FALSE]
    ELSE [p |-> [p EXCEPT !.stack = @ - amount,
                          !.currentBet = @ + amount,
                          !.totalBetThisRound = @ + amount],
          paid |-> amount, threw |-> FALSE]

PlayerFold(p) == [p EXCEPT !.hasFolded = TRUE, !.isActive = FALSE]

ResetForNewRound(p) == [p EXCEPT !.currentBet = 0]

ResetForNewHand(p) ==
  [p EXCEPT !.currentBet = 0, !.totalBetThisRound = 0, !.holeCards = <<>>,
            !.hasFolded = FALSE, !.isAllIn = FALSE, !.isActive = (p.stack > 0)]

AddChips(p, amount) == [p EXCEPT !.stack = @ + amount]

SetInactive(p) == [p EXCEPT !.isActive = FALSE]

(***************************************************************************)
(* Game                                                                    *)
(***************************************************************************)
Stages == {"waiting", "preflop", "flop", "turn", "river", "showdown", "complete"}
BettingStages == {"preflop", "flop", "turn", "river"}
PlayerActions == {"fold", "check", "call", "bet", "raise", "all-in"}

\* new Game(config): the field initialisers and the constructor
NewGame(config) ==
  [config |-> config, players |-> <<>>, deck |-> ResetDeck, communityCards |-> <<>>,
   pot |-> 0, stage |-> "waiting", currentPlayerIndex |-> 0, currentBet |-> 0,
   dealerIndex |-> 0, smallBlindIndex |-> 0, bigBlindIndex |-> 0,
   lastRaiserIndex |-> -1, playersActedThisRound |-> {}, lastRaiseSize |-> 0,
   actionStartTime |-> 0, currentActionPlayerId |-> "null"]

NumPlayers(g) == Len(g.players)
PlayerAt(g, i) == g.players[i + 1]
PlayerIndexOf(g, pid) == CHOOSE i \in 0..(NumPlayers(g) - 1) : PlayerAt(g, i).id = pid
HasPlayer(g, pid) == \E i \in 1..NumPlayers(g) : g.players[i].id = pid

\* players.filter(p => p.getIsActive() && !p.getHasFolded()), as index set
ActiveIdx(g) == {i \in 0..(NumPlayers(g) - 1) :
                   PlayerAt(g, i).isActive /\ ~PlayerAt(g, i).hasFolded}
\* ... && !p.getIsAllIn()
CanActIdx(g) == {i \in ActiveIdx(g) : ~PlayerAt(g, i).isAllIn}

\* Sorted insertion position used by addPlayer / canPlayerJoinAtSeat: players
\* are kept sorted by seat number (stable sort, the new player is appended
\* before sorting, so it goes after every seat number <= its own)
InsertSorted(players, p) ==
  LET k == Cardinality({i \in 1..Len(players) : players[i].seatNumber <= p.seatNumber})
  IN  SubSeq(players, 1, k) \o <<p>> \o SubSeq(players, k + 1, Len(players))

\* canPlayerJoinAtSeat(seatNumber).canJoin
CanPlayerJoinAtSeat(g, seatNumber) ==
  IF g.stage = "waiting" \/ g.stage = "complete" THEN TRUE
  ELSE IF NumPlayers(g) = 0 THEN TRUE
  ELSE LET n == NumPlayers(g) + 1
           temp == InsertSorted(g.players, [seatNumber |-> seatNumber])
           newPlayerIndex == (CHOOSE i \in 1..n : temp[i].seatNumber = seatNumber
                                /\ \A j \in 1..(i - 1) : temp[j].seatNumber # seatNumber) - 1
           nextDealerIndex == (g.dealerIndex + 1) % n
           nextBigBlindIndex == IF n = 2 THEN (nextDealerIndex + 1) % n
                                ELSE (nextDealerIndex + 2) % n
       IN  newPlayerIndex = nextBigBlindIndex

\* addPlayer(player) with the player of a hand in progress left active
AddPlayerLeftActive(g, player) ==
  IF NumPlayers(g) >= 10 THEN [g |-> g, threw |-> TRUE]
  ELSE IF g.stage # "waiting" /\ g.stage # "complete"
          /\ ~CanPlayerJoinAtSeat(g, player.seatNumber)
    THEN [g |-> g, threw |-> TRUE]
  ELSE [g |-> [g EXCEPT !.players = InsertSorted(g.players, player)], threw |-> FALSE]

\* addPlayer(player) with the blind position rule left out
AddPlayerUnchecked(g, player) ==
  IF NumPlayers(g) >= 10 THEN [g |-> g, threw |-> TRUE]
  ELSE LET p == IF g.stage # "waiting" /\ g.stage # "complete"
                THEN SetInactive(player) ELSE player
       IN  [g |-> [g EXCEPT !.players = InsertSorted(g.players, p)], threw |-> FALSE]

\* addPlayer(player): [g, threw]
AddPlayer(g, player) ==
  IF NumPlayers(g) >= 10 THEN [g |-> g, threw |-> TRUE]
  ELSE IF g.stage # "waiting" /\ g.stage # "complete"
          /\ ~CanPlayerJoinAtSeat(g, player.seatNumber)
    THEN [g |-> g, threw |-> TRUE]
  ELSE LET p == IF g.stage # "waiting" /\ g.stage # "complete"
                THEN SetInactive(player) ELSE player
       IN  [g |-> [g EXCEPT !.players = InsertSorted(g.players, p)], threw |-> FALSE]

\* startActionTimer()
StartActionTimer(g, now) ==
  [g EXCEPT !.actionStartTime = now,
            !.currentActionPlayerId = PlayerAt(g, g.currentPlayerIndex).id]

\* hasActionTimedOut(): remaining = timeout - elapsed <= 0; no timeout
\* configured (0 stands for undefined) never times out
HasActionTimedOut(g, now) ==
  IF g.config.actionTimeoutSeconds = 0 THEN FALSE
  ELSE now - g.actionStartTime >= g.config.actionTimeoutSeconds

\* getMinimumRaise()
GetMinimumRaise(g) ==
  IF g.currentBet = 0 THEN g.config.bigBlind
  ELSE IF g.lastRaiseSize = 0 THEN g.currentBet
  ELSE g.lastRaiseSize

\* player.bet(amount) at index i with the chips wagered left out of the pot
BetAtPotForgotten(g, i, amount) ==
  LET r == PlayerBet(PlayerAt(g, i), amount)
  IN  [g |-> [g EXCEPT !.players[i + 1] = r.p], threw |-> r.threw]

\* apply player.bet(amount) to the player at index i and add the chips to the pot
BetAt(g, i, amount) ==
  LET r == PlayerBet(PlayerAt(g, i), amount)
  IN  [g |-> [g EXCEPT !.players[i + 1] = r.p, !.pot = @ + r.paid], threw |-> r.threw]

RECURSIVE PostAntes(_, _)
\* for (const player of this.players) this.pot += player.bet(ante), from index i on
PostAntes(g, i) ==
  IF i >= NumPlayers(g) THEN g
  ELSE PostAntes(BetAt(g, i, g.config.ante).g, i + 1)

RECURSIVE DealHoleCards(_, _)
\* for (const player of this.players) player.dealHoleCards(deck.dealMultiple(2))
DealHoleCards(g, i) ==
  IF i >= NumPlayers(g) THEN g
  ELSE DealHoleCards([g EXCEPT !.players[i + 1].holeCards = DealMultiple(g.deck, 2),
                               !.deck = AfterDeal(g.deck, 2)], i + 1)

\* startHand(): the deck, the table fields and every player are reset; k
\* selects the shuffle
ResetHand(g, k) ==
  [g EXCEPT !.deck = Shuffle(k), !.communityCards = <<>>, !.pot = 0,
            !.currentBet = 0, !.lastRaiserIndex = -1, !.lastRaiseSize = 0,
            !.playersActedThisRound = {},
            !.players = Tup([i \in 1..Len(@) |-> ResetForNewHand(@[i])])]

\* startHand(): antes, if configured
PostAllAntes(g) == IF g.config.ante > 0 THEN PostAntes(g, 0) ELSE g

\* startHand(): the dealer button moves on and the blind positions follow it
MoveButton(g) ==
  LET n == NumPlayers(g)
      dealer == (g.dealerIndex + 1) % n
  IN  [g EXCEPT !.dealerIndex = dealer,
                !.smallBlindIndex = IF n = 2 THEN dealer ELSE (dealer + 1) % n,
                !.bigBlindIndex = IF n = 2 THEN (dealer + 1) % n ELSE (dealer + 2) % n]

\* startHand(): the bet to match is the big blind and both blind posters are
\* marked as having acted
MarkBlinds(g) ==
  [g EXCEPT !.currentBet = g.config.bigBlind,
            !.playersActedThisRound = @ \cup {PlayerAt(g, g.smallBlindIndex).id,
                                              PlayerAt(g, g.bigBlindIndex).id}]

\* startHand(): the small blind is posted
PostSmallBlind(g) == BetAt(g, g.smallBlindIndex, g.config.smallBlind).g
\* startHand(): the big blind is posted
PostBigBlind(g) == BetAt(g, g.bigBlindIndex, g.config.bigBlind).g

\* startHand(): the stage and the first player to act
FirstPreflop(g) ==
  [g EXCEPT !.stage = "preflop",
            !.currentPlayerIndex = IF NumPlayers(g) = 2 THEN g.smallBlindIndex
                                   ELSE (g.bigBlindIndex + 1) % NumPlayers(g)]

\* startHand(), for a game with at least two players
StartHand(g, k, now) ==
  StartActionTimer(
    FirstPreflop(DealHoleCards(MarkBlinds(PostBigBlind(PostSmallBlind(
      MoveButton(PostAllAntes(ResetHand(g, k)))))), 0)), now)

\* dealFlop / dealTurn / dealRiver
DealFlop(g) ==
  LET d == Burn(g.deck)
  IN  [g EXCEPT !.communityCards = @ \o DealMultiple(d, 3), !.deck = AfterDeal(d, 3),
                !.stage = "flop"]

DealTurn(g) ==
  LET d == Burn(g.deck)
  IN  [g EXCEPT !.communityCards = @ \o DealMultiple(d, 1), !.deck = AfterDeal(d, 1),
                !.stage = "turn"]

DealRiver(g) ==
  LET d == Burn(g.deck)
  IN  [g EXCEPT !.communityCards = @ \o DealMultiple(d, 1), !.deck = AfterDeal(d, 1),
                !.stage = "river"]

\* this.players.forEach(p => p.resetForNewRound())
ResetBets(g) == [g EXCEPT !.players = Tup([i \in 1..Len(@) |-> ResetForNewRound(@[i])])]

\* the street dealt for the number of community cards on the table
NextStreet(g) ==
  IF Len(g.communityCards) = 0 THEN DealFlop(g)
  ELSE IF Len(g.communityCards) = 3 THEN DealTurn(g)
  ELSE DealRiver(g)

RECURSIVE DealRemaining(_)
\* while (communityCards.length < 5) { deal the next street; reset the bets }
DealRemaining(g) ==
  IF Len(g.communityCards) >= 5 THEN g ELSE DealRemaining(ResetBets(NextStreet(g)))

\* the seven cards of every player of a Game that has its five community cards
HandsOf(g) == {g.players[i].holeCards \o g.communityCards : i \in 1..Len(g.players)}

\* a set of hands and the same hands as fromJSON rebuilds them
WithRebuilt(hs) == hs \cup {Tup([i \in 1..Len(d) |-> Card(d[i].rank, d[i].suit)]) : d \in hs}

\* evaluateHand is a pure function of the seven cards.  The hands that the
\* shuffles of the model deal (as dealt, and as rebuilt by fromJSON) are
\* evaluated once, by EvaluateHand, and looked up afterwards; any other hand
\* is evaluated directly.
DealtHands ==
  UNION {HandsOf(DealRemaining(DealHoleCards(
                   [deck |-> Shuffle(k), communityCards |-> <<>>, stage |-> "preflop",
                    players |-> Tup([i \in 1..n |-> NewPlayer(i, 0, i)])], 0)))
         : <<n, k>> \in (2..MaxPlayers) \X (1..NumShuffles)}

EvaluatedHands ==
  {[cards |-> h, evaluation |-> EvaluateHand(h)] : h \in WithRebuilt(DealtHands)}

\* the evaluation of cards in a table of evaluations, evaluateHand(cards) if
\* the table has none
Lookup(table, cards) ==
  IF \E e \in table : e.cards = cards
  THEN (CHOOSE e \in table : e.cards = cards).evaluation
  ELSE EvaluateHand(cards)

EvaluateHandOf(cards) == Lookup(EvaluatedHands, cards)

\* showdown(): the evaluation of every active, non-folded player, by
\* position in players
Evaluations(g) ==
  Tup([k \in 1..NumPlayers(g) |->
         IF (k - 1) \in ActiveIdx(g)
         THEN EvaluateHandOf(g.players[k].holeCards \o g.communityCards)
         ELSE [rank |-> 0, tiebreakers |-> <<>>]])

\* the indices in act whose evaluation compares equal to the best one
Best(act, ev) == {i \in act : \A j \in act : CompareHands(ev[i + 1], ev[j + 1]) >= 0}

\* the winners of showdown()
ShowdownWinners(g) == Best(ActiveIdx(g), Evaluations(g))

\* showdown() with the whole pot paid to each of the winners
PayWinnersUnsplit(g, winners) ==
  [g EXCEPT !.players = Tup([i \in 1..Len(@) |->
                               IF (i - 1) \in winners THEN AddChips(@[i], g.pot) ELSE @[i]]),
            !.stage = "complete"]

\* showdown(): the pot is split between the winners
PayWinners(g, winners) ==
  [g EXCEPT !.players = Tup([i \in 1..Len(@) |->
                               IF (i - 1) \in winners
                               THEN AddChips(@[i], g.pot \div Cardinality(winners))
                               ELSE @[i]]),
            !.stage = "complete"]

\* showdown() once the stage is set: [g, threw].  With no active player
\* evaluations[0] is undefined and reading .evaluation throws; so does
\* evaluateHand on fewer than five cards.
Evaluated(g) ==
  IF ActiveIdx(g) = {}
     \/ \E i \in ActiveIdx(g) : Len(PlayerAt(g, i).holeCards \o g.communityCards) < 5
  THEN [g |-> g, threw |-> TRUE]
  ELSE [g |-> PayWinners(g, ShowdownWinners(g)), threw |-> FALSE]

\* showdown(): [g, threw]
Showdown(g) == Evaluated([g EXCEPT !.stage = "showdown"])

\* handleWinner(winner) with the pot not paid out
HandleWinnerUnpaid(g, i) == [g EXCEPT !.stage = "complete"]

\* handleWinner(winner)
HandleWinner(g, i) ==
  [g EXCEPT !.players[i + 1] = AddChips(@, g.pot), !.stage = "complete"]

\* the first index from the small blind on whose player is not folded, not
\* all-in and active; -1 if the search wraps around to the small blind
FirstToAct(g) ==
  LET n == NumPlayers(g)
      ok(i) == ~PlayerAt(g, i).hasFolded /\ ~PlayerAt(g, i).isAllIn /\ PlayerAt(g, i).isActive
      offs == {a \in 0..(n - 1) : ok((g.smallBlindIndex + a) % n)}
  IN  IF offs = {} THEN -1
      ELSE (g.smallBlindIndex + (CHOOSE a \in offs : \A b \in offs : a <= b)) % n

\* advanceStage(): bets and round fields are reset
ResetRound(g) ==
  [ResetBets(g) EXCEPT !.currentBet = 0, !.lastRaiserIndex = -1, !.lastRaiseSize = 0,
                       !.playersActedThisRound = {}]

\* advanceStage(): at most one player can act and the river is not out yet
DealtOut(g) == Cardinality(CanActIdx(g)) <= 1 /\ g.stage # "river"

\* advanceStage(): the Game on which showdown() is called: dealt out, or as
\* it is when the search for the first player wraps around, or with the first
\* player as current player at the river
BeforeShowdown(g) ==
  IF DealtOut(g) THEN DealRemaining(g)
  ELSE IF FirstToAct(g) = -1 THEN g
  ELSE [g EXCEPT !.currentPlayerIndex = FirstToAct(g)]

\* advanceStage(): the switch on the stage for preflop, flop and turn (any
\* other stage but river falls through it)
DealStreet(g) ==
  IF g.stage = "preflop" THEN DealFlop(g)
  ELSE IF g.stage = "flop" THEN DealTurn(g)
  ELSE IF g.stage = "turn" THEN DealRiver(g)
  ELSE g

\* the result r of showdown(), followed by startActionTimer() if the caller
\* goes on (timer) and showdown() did not throw
ThenTimer(r, timer, now) ==
  IF timer /\ ~r.threw THEN [g |-> StartActionTimer(r.g, now), threw |-> FALSE] ELSE r

\* advanceStage() after the resets: [g, threw]
Advance(g, now) ==
  IF DealtOut(g) \/ FirstToAct(g) = -1 \/ g.stage = "river"
  THEN ThenTimer(Showdown(BeforeShowdown(g)), ~DealtOut(g) /\ FirstToAct(g) # -1, now)
  ELSE [g |-> StartActionTimer(DealStreet([g EXCEPT !.currentPlayerIndex = FirstToAct(g)]),
                               now),
        threw |-> FALSE]

\* advanceStage(): [g, threw]
AdvanceStage(g, now) == Advance(ResetRound(g), now)

\* isBettingRoundComplete(nextIndex)
IsBettingRoundComplete(g, nextIndex) ==
  IF CanActIdx(g) = {} THEN TRUE
  ELSE IF g.lastRaiserIndex # -1 THEN nextIndex = g.lastRaiserIndex
  ELSE \A i \in CanActIdx(g) : PlayerAt(g, i).id \in g.playersActedThisRound

\* nextTurn(): the offsets from the seat after the current one at which a
\* player is active, not folded and not all-in
NextOffsets(g) ==
  {a \in 0..(NumPlayers(g) - 1) :
     ((g.currentPlayerIndex + 1 + a) % NumPlayers(g)) \in CanActIdx(g)}

\* nextTurn(): the first such player
NextIndex(g) ==
  (g.currentPlayerIndex + 1
     + (CHOOSE a \in NextOffsets(g) : \A b \in NextOffsets(g) : a <= b)) % NumPlayers(g)

\* nextTurn(): [g, threw]
NextTurn(g, now) ==
  IF Cardinality(ActiveIdx(g)) = 1
  THEN [g |-> HandleWinner(g, CHOOSE i \in ActiveIdx(g) : TRUE), threw |-> FALSE]
  ELSE IF NextOffsets(g) = {} \/ IsBettingRoundComplete(g, NextIndex(g))
  THEN AdvanceStage(g, now)
  ELSE [g |-> StartActionTimer([g EXCEPT !.currentPlayerIndex = NextIndex(g)], now),
        threw |-> FALSE]

\* The switch of handleAction for the player at index i (the current player):
\* [g, ok, threw]; ok = FALSE is an early "return { valid: false }", threw is
\* an exception of player.bet.  amount = 0 stands for an undefined amount.
ApplyAction(g, i, action, amount) ==
  LET player == PlayerAt(g, i)
      toCall == g.currentBet - player.currentBet
      No == [g |-> g, ok |-> FALSE, threw |-> FALSE]
      Yes(h) == [g |-> h, ok |-> TRUE, threw |-> FALSE]
      Raised(h) ==
        LET newBet == PlayerAt(h, i).currentBet
        IN  [h EXCEPT !.lastRaiseSize = newBet - g.currentBet, !.currentBet = newBet,
                      !.lastRaiserIndex = g.currentPlayerIndex]
  IN  CASE action = "fold" -> Yes([g EXCEPT !.players[i + 1] = PlayerFold(@)])
        [] action = "check" ->
             IF player.currentBet < g.currentBet THEN No ELSE Yes(g)
        [] action = "call" ->
             LET r == BetAt(g, i, toCall)
             IN  IF r.threw THEN [g |-> g, ok |-> FALSE, threw |-> TRUE] ELSE Yes(r.g)
        [] action \in {"bet", "raise"} ->
             IF amount <= 0 THEN No
             ELSE LET totalBet == toCall + amount
                      isAllIn == totalBet >= player.stack
                  IN  IF ~isAllIn /\ amount < GetMinimumRaise(g) THEN No
                      ELSE IF isAllIn
                        THEN LET h == BetAt(g, i, player.stack).g
                             IN  IF PlayerAt(h, i).currentBet > g.currentBet
                                 THEN Yes(Raised(h)) ELSE Yes(h)
                        ELSE LET r == BetAt(g, i, totalBet)
                             IN  IF r.threw THEN [g |-> g, ok |-> FALSE, threw |-> TRUE]
                                 ELSE Yes(Raised(r.g))
        [] action = "all-in" ->
             LET h == BetAt(g, i, player.stack).g
             IN  IF PlayerAt(h, i).currentBet > g.currentBet
                 THEN Yes(Raised(h)) ELSE Yes(h)
        [] OTHER -> No

\* handleAction after the switch gave a (of ApplyAction): the player is
\* marked as having acted and nextTurn() is called, inside the try block.
\* An early return of the switch ends the call like an exception does, with
\* valid: false, and is passed on as one.
AfterSwitch(a, playerId, now) ==
  IF ~a.ok THEN [g |-> a.g, threw |-> TRUE]
  ELSE NextTurn([a.g EXCEPT !.playersActedThisRound = @ \cup {playerId}], now)

\* the ActionResult for the outcome t of the try block
Result(t) == [valid |-> ~t.threw, g |-> t.g]

\* handleAction(playerId, action, amount): [valid, g]; g is the Game object
\* after the call (an exception caught by the try block leaves the changes
\* made before it in place)
HandleAction(g, playerId, action, amount, now) ==
  IF ~HasPlayer(g, playerId) THEN [valid |-> FALSE, g |-> g]
  ELSE IF PlayerAt(g, g.currentPlayerIndex).id # playerId THEN [valid |-> FALSE, g |-> g]
  ELSE IF ~PlayerAt(g, g.currentPlayerIndex).isActive
          \/ PlayerAt(g, g.currentPlayerIndex).hasFolded THEN [valid |-> FALSE, g |-> g]
  ELSE IF HasActionTimedOut(g, now) THEN [valid |-> FALSE, g |-> g]
  ELSE Result(AfterSwitch(ApplyAction(g, g.currentPlayerIndex, action, amount),
                          playerId, now))

\* handleTimeout()
HandleTimeout(g, now) ==
  HandleAction(g, PlayerAt(g, g.currentPlayerIndex).id,
               IF PlayerAt(g, g.currentPlayerIndex).currentBet >= g.currentBet
               THEN "check" ELSE "fold",
               0, now)

(***************************************************************************)
(* Serialisation: toJSON / fromJSON                                        *)
(***************************************************************************)
\* { rank: c.rank, suit: c.suit }
CardToJSON(c) == [rank |-> c.rank, suit |-> c.suit]
\* new Card(c.rank, c.suit)
CardFromJSON(c) == Card(c.rank, c.suit)

MapSeq(s, F(_)) == Tup([i \in 1..Len(s) |-> F(s[i])])

ToJSON(g) ==
  [config |-> g.config,
   players |-> MapSeq(g.players, LAMBDA p :
                 [id |-> p.id, stack |-> p.stack, bet |-> p.currentBet,
                  totalBetThisRound |-> p.totalBetThisRound,
                  holeCards |-> MapSeq(p.holeCards, CardToJSON),
                  hasFolded |-> p.hasFolded, isAllIn |-> p.isAllIn,
                  isActive |-> p.isActive, seatNumber |-> p.seatNumber]),
   communityCards |-> MapSeq(g.communityCards, CardToJSON),
   pot |-> g.pot, stage |-> g.stage, currentPlayerIndex |-> g.currentPlayerIndex,
   currentBet |-> g.currentBet, dealerIndex |-> g.dealerIndex,
   smallBlindIndex |-> g.smallBlindIndex, bigBlindIndex |-> g.bigBlindIndex,
   lastRaiserIndex |-> g.lastRaiserIndex, lastRaiseSize |-> g.lastRaiseSize,
   playersActedThisRound |-> g.playersActedThisRound,
   deckCards |-> MapSeq(g.deck, CardToJSON),
   actionStartTime |-> g.actionStartTime,
   currentActionPlayerId |-> g.currentActionPlayerId]

FromJSON(data) ==
  [config |-> data.config,
   players |-> MapSeq(data.players, LAMBDA pData :
                 [id |-> pData.id, stack |-> pData.stack, currentBet |-> pData.bet,
                  totalBetThisRound |-> pData.totalBetThisRound,
                  holeCards |-> MapSeq(pData.holeCards, CardFromJSON),
                  hasFolded |-> pData.hasFolded, isAllIn |-> pData.isAllIn,
                  isActive |-> pData.isActive, seatNumber |-> pData.seatNumber]),
   deck |-> MapSeq(data.deckCards, CardFromJSON),
   communityCards |-> MapSeq(data.communityCards, CardFromJSON),
   pot |-> data.pot, stage |-> data.stage,
   currentPlayerIndex |-> data.currentPlayerIndex, currentBet |-> data.currentBet,
   dealerIndex |-> data.dealerIndex, smallBlindIndex |-> data.smallBlindIndex,
   bigBlindIndex |-> data.bigBlindIndex, lastRaiserIndex |-> data.lastRaiserIndex,
   playersActedThisRound |-> data.playersActedThisRound,
   lastRaiseSize |-> data.lastRaiseSize,
   actionStartTime |-> data.actionStartTime,
   currentActionPlayerId |-> data.currentActionPlayerId]

(***************************************************************************)
(* State                                                                   *)
(***************************************************************************)
VARIABLES
  game,    \* the Game object of the table (in SpecServer: the one saved last)
  now,     \* Date.now(), in units of the action timeout
  hands,   \* number of startHand calls so far
  chips,   \* chips brought to the table by the seated players
  last,    \* the last call on the Game and its result
  cache,   \* the value stored for the table by GameStateStorage
  ver,     \* number of saveGameState calls so far
  ops,     \* the handler invocations of the server
  joined,  \* the addPlayer calls that succeeded, each with the hand it came in
  srv      \* the maps of the PokerServer object and its pending timers

vars == <<game, now, hands, chips, last, cache, ver, ops, joined, srv>>
sessionVars == <<joined, srv>>
serverVars == <<cache, ver, ops, joined, srv>>

PlayerIds == <<"p1", "p2", "p3", "p4">>

\* a PokerServer that no user has been seated at or connected to
NoSession == "none"

\* new Game(config) followed by addPlayer for seats 1..n with the given stacks
SeatedGame(config, stacks) ==
  LET RECURSIVE Add(_, _)
      Add(g, i) == IF i > Len(stacks) THEN g
                   ELSE Add(AddPlayer(g, NewPlayer(PlayerIds[i], stacks[i], i)).g, i + 1)
  IN  Add(NewGame(config), 1)

NoCall == [op |-> "none", valid |-> TRUE, playerId |-> "null", action |-> "none", amount |-> 0]
Rejected(op) == [op |-> op, valid |-> FALSE, playerId |-> "null", action |-> "none", amount |-> 0]
Admitted(op, pid, action, amount) ==
  [op |-> op, valid |-> TRUE, playerId |-> pid, action |-> action, amount |-> amount]

\* the amounts that may accompany an action: bet and raise carry one
Amounts(action) == IF action \in {"bet", "raise"} THEN 0..MaxAmount ELSE {0}

RECURSIVE SumStacks(_, _)
SumStacks(players, i) == IF i > Len(players) THEN 0
                         ELSE players[i].stack + SumStacks(players, i + 1)
TotalStacks(g) == SumStacks(g.players, 1)

(***************************************************************************)
(* Spec: the hand state machine driven call by call, without action        *)
(* timeout (config.actionTimeoutSeconds undefined)                         *)
(***************************************************************************)
Config(ante, timeout) ==
  [smallBlind |-> 1, bigBlind |-> 2, initialStack |-> 5, ante |-> ante,
   actionTimeoutSeconds |-> timeout]

\* the tables of Spec: heads-up with and without ante, every choice of a
\* short and a deep stack; three-handed without ante
Tables ==
  {SeatedGame(Config(a, 0), st) : a \in {0, 1}, st \in {<<2, 2>>, <<2, 5>>, <<5, 2>>, <<5, 5>>}}
  \cup {SeatedGame(Config(0, 0), <<2, 3, 2>>)}

Init ==
  /\ game \in Tables
  /\ now = 0
  /\ hands = 0
  /\ chips = TotalStacks(game)
  /\ last = NoCall
  /\ cache = "none" /\ ver = 0 /\ ops = <<>>
  /\ joined = <<>> /\ srv = NoSession

\* game.startHand(), called when the table becomes ready and after a hand
\* has completed
StartHandStep ==
  /\ game.stage \in {"waiting", "complete"}
  /\ (hands + 1) * NumPlayers(game) <= MaxDeals
  /\ \E k \in 1..NumShuffles : game' = StartHand(game, k, now)
  /\ hands' = hands + 1
  /\ last' = [NoCall EXCEPT !.op = "startHand"]
  /\ UNCHANGED <<now, chips, serverVars>>

\* the Game after a call of handleAction that returned r, and the call
Returned(r, pid, action, amount) ==
  /\ game' = r.g
  /\ last' = IF r.valid THEN Admitted("action", pid, action, amount) ELSE Rejected("action")

\* game.handleAction(playerId, action, amount)
ActionStep ==
  /\ TotalStacks(game) <= chips + MaxSurplus
  /\ \E i \in 1..NumPlayers(game), action \in PlayerActions :
       \E amount \in Amounts(action) :
         Returned(HandleAction(game, game.players[i].id, action, amount, now),
                  game.players[i].id, action, amount)
  /\ UNCHANGED <<now, hands, chips, serverVars>>

Next == StartHandStep \/ ActionStep

Spec == Init /\ [][Next]_vars

(***************************************************************************)
(* SpecTimeout: the hand state machine with an action timeout of one clock *)
(* unit, the clock, and the callback of the server's action timer          *)
(***************************************************************************)
InitTimeout ==
  /\ game \in {SeatedGame(Config(0, 1), st) : st \in {<<2, 5>>, <<5, 5>>}}
  /\ now = 0
  /\ hands = 0
  /\ chips = TotalStacks(game)
  /\ last = NoCall
  /\ cache = "none" /\ ver = 0 /\ ops = <<>>
  /\ joined = <<>> /\ srv = NoSession

\* Date.now() advances
Tick ==
  /\ now < MaxNow
  /\ now' = now + 1
  /\ last' = [NoCall EXCEPT !.op = "tick"]
  /\ UNCHANGED <<game, hands, chips, serverVars>>

\* handleActionTimeout after game.handleTimeout() returned r: the Game is
\* saved only if r is valid
TimedOut(r) ==
  /\ game' = IF r.valid THEN r.g ELSE game
  /\ last' = [op |-> "timeout", valid |-> r.valid,
              playerId |-> PlayerAt(game, game.currentPlayerIndex).id,
              action |-> "none", amount |-> 0]

\* handleActionTimeout(gameId), the callback of the timer that startActionTimer
\* sets to actionTimeoutSeconds: it runs once that time has passed since the
\* turn began, gives up unless game.hasActionTimedOut(), calls
\* game.handleTimeout() and keeps the result only if it is valid
TimeoutStep ==
  /\ game.stage \in BettingStages
  /\ game.config.actionTimeoutSeconds > 0
  /\ now - game.actionStartTime >= game.config.actionTimeoutSeconds
  /\ IF ~HasActionTimedOut(game, now)
     THEN UNCHANGED <<game, last>>
     ELSE TimedOut(HandleTimeout(game, now))
  /\ UNCHANGED <<now, hands, chips, serverVars>>

NextTimeout == StartHandStep \/ ActionStep \/ Tick \/ TimeoutStep

SpecTimeout == InitTimeout /\ [][NextTimeout]_vars

(***************************************************************************)
(* SpecServer: handleGameAction invocations on one table kept in the       *)
(* cache.  A handler awaits loadGameState, then runs to its saveGameState  *)
(* without a further await that reads the table; the next hand is started  *)
(* later, by a timer, on the Game object the handler holds.                *)
(***************************************************************************)
IdleOp ==
  [pc |-> "idle", playerId |-> "null", action |-> "none", amount |-> 0,
   read |-> 0, base |-> 0, admitted |-> FALSE, g |-> NewGame(Config(0, 0))]

\* a step of handler o on the version base of the table
ServerCall(op, valid, base) == [op |-> op, valid |-> valid, base |-> base]

\* createGame(): two players from the lobby, startHand(), saveGameState
\* (blinds and stacks in the proportions of Config)
InitServer ==
  /\ \E k \in 1..NumShuffles : game = StartHand(SeatedGame(Config(0, 0), <<5, 5>>), k, 0)
  /\ cache = ToJSON(game)
  /\ ver = 0
  /\ ops = [o \in 1..MaxOps |-> IdleOp]
  /\ now = 0
  /\ hands = 1
  /\ chips = TotalStacks(SeatedGame(Config(0, 0), <<5, 5>>))
  /\ last = ServerCall("createGame", TRUE, 0)
  /\ joined = <<>> /\ srv = NoSession

\* handleGameAction(socket, data) up to the reply of loadGameState and
\* Game.fromJSON(gameData)
LoadStep(o) ==
  /\ ops[o].pc = "idle"
  /\ \E i \in 1..Len(cache.players), action \in PlayerActions :
       \E amount \in Amounts(action) :
         ops' = [ops EXCEPT ![o] = [pc |-> "loaded", playerId |-> cache.players[i].id,
                                    action |-> action, amount |-> amount, read |-> ver,
                                    base |-> ver, admitted |-> FALSE, g |-> FromJSON(cache)]]
  /\ last' = ServerCall("load", TRUE, ver)
  /\ UNCHANGED <<game, now, hands, chips, cache, ver, sessionVars>>

\* handleGameAction after game.handleAction returned r: an invalid result is
\* answered with action_error; a valid one is saved, and if the hand is
\* complete the next hand is scheduled
Handled(o, r) ==
  IF ~r.valid
  THEN /\ ops' = [ops EXCEPT ![o].pc = "done", ![o].g = r.g]
       /\ last' = ServerCall("action", FALSE, ops[o].base)
       /\ UNCHANGED <<game, cache, ver>>
  ELSE /\ cache' = ToJSON(r.g)
       /\ game' = r.g
       /\ ver' = ver + 1
       /\ ops' = [ops EXCEPT ![o].pc = IF r.g.stage = "complete" THEN "timer" ELSE "done",
                             ![o].g = r.g, ![o].base = ver + 1, ![o].admitted = TRUE]
       /\ last' = ServerCall("action", TRUE, ops[o].base)

\* handleGameAction from game.handleAction on
HandleStep(o) ==
  /\ ops[o].pc = "loaded"
  /\ Handled(o, HandleAction(ops[o].g, ops[o].playerId, ops[o].action, ops[o].amount, now))
  /\ UNCHANGED <<now, hands, chips, sessionVars>>

\* the setTimeout callback of handleGameAction: game.startHand() on the
\* handler's Game object, then saveGameState
NextHandStep(o) ==
  /\ ops[o].pc = "timer"
  /\ \E k \in 1..NumShuffles : game' = StartHand(ops[o].g, k, now)
  /\ cache' = ToJSON(game')
  /\ ver' = ver + 1
  /\ ops' = [ops EXCEPT ![o].pc = "done", ![o].g = game', ![o].base = ver + 1]
  /\ hands' = hands + 1
  /\ last' = ServerCall("startHand", TRUE, ops[o].base)
  /\ UNCHANGED <<now, chips, sessionVars>>

NextServer == \E o \in 1..MaxOps : LoadStep(o) \/ HandleStep(o) \/ NextHandStep(o)

SpecServer == InitServer /\ [][NextServer]_vars

(***************************************************************************)
(* SpecJoin: the hand state machine of a heads-up table at which a third   *)
(* player asks for a seat, at any moment of the first hand or after it.    *)
(* The seats taken are 2 and 4, so that the new seat may sort before,      *)
(* between or after them.                                                  *)
(***************************************************************************)
\* hands started at a table of SpecJoin; the last of them is not played
MaxJoinHands == 2

\* new Game(config) followed by addPlayer of a player at each of seats, with
\* the given stacks
SeatedAt(config, stacks, seats) ==
  LET RECURSIVE Add(_, _)
      Add(g, i) == IF i > Len(stacks) THEN g
                   ELSE Add(AddPlayer(g, NewPlayer(PlayerIds[i], stacks[i], seats[i])).g, i + 1)
  IN  Add(NewGame(config), 1)

\* the seat numbers a request may name
SeatNumbers == {1, 3, 5}
\* the seat numbers of the players of g
SeatsTaken(g) == {g.players[i].seatNumber : i \in 1..NumPlayers(g)}
\* the hand is in progress: addPlayer applies the blind position rule
InProgress(g) == g.stage # "waiting" /\ g.stage # "complete"

\* the first hand has been started
InitJoin ==
  /\ \E k \in 1..NumShuffles :
       game = StartHand(SeatedAt(Config(0, 0), <<5, 5>>, <<2, 4>>), k, 0)
  /\ now = 0
  /\ hands = 1
  /\ chips = TotalStacks(SeatedAt(Config(0, 0), <<5, 5>>, <<2, 4>>))
  /\ last = NoCall
  /\ cache = "none" /\ ver = 0 /\ ops = <<>>
  /\ joined = <<>> /\ srv = NoSession

\* game.startHand(), after a hand has completed
JoinStartHandStep ==
  /\ game.stage \in {"waiting", "complete"}
  /\ hands < MaxJoinHands
  /\ \E k \in 1..NumShuffles : game' = StartHand(game, k, now)
  /\ hands' = hands + 1
  /\ last' = [NoCall EXCEPT !.op = "startHand"]
  /\ UNCHANGED <<now, chips, serverVars>>

\* the outcome r of game.addPlayer(player): the call, and the record of a
\* player that was added
Added(r, player) ==
  /\ game' = r.g
  /\ last' = [op |-> "addPlayer", valid |-> ~r.threw, playerId |-> player.id,
              action |-> "none", amount |-> player.seatNumber]
  /\ joined' = IF r.threw THEN joined
               ELSE Append(joined, [id |-> player.id, hand |-> hands,
                                    inProgress |-> InProgress(game)])
  /\ chips' = IF r.threw THEN chips ELSE chips + player.stack

\* game.addPlayer(new Player(id, name, stack, seat_number)) as the seat-player
\* endpoint calls it: for a seat that no player of the game has
JoinStep ==
  /\ NumPlayers(game) < MaxPlayers
  /\ \E seat \in SeatNumbers \ SeatsTaken(game) :
       Added(AddPlayer(game, NewPlayer(PlayerIds[NumPlayers(game) + 1],
                                       game.config.initialStack, seat)),
             NewPlayer(PlayerIds[NumPlayers(game) + 1], game.config.initialStack, seat))
  /\ UNCHANGED <<now, hands, cache, ver, ops, srv>>

\* game.handleAction(playerId, action, amount) in a hand that is played
JoinActionStep == hands < MaxJoinHands /\ ActionStep

NextJoin == JoinStartHandStep \/ JoinActionStep \/ JoinStep

SpecJoin == InitJoin /\ [][NextJoin]_vars

(***************************************************************************)
(* SpecTable: one table of the PokerServer, with the users that are seated *)
(* at it by POST /_internal/seat-player and the sockets they open and      *)
(* close.  A handler runs to its end before the next one starts; the       *)
(* callbacks of setTimeout (reconnect grace, next hand) run at any later   *)
(* moment.  No action timeout is configured for the table and the lobby is *)
(* not used.                                                               *)
(***************************************************************************)
\* sockets opened over the life of the server
MaxSockets == 3
\* sockets opened by a user other than the first
MaxOtherSockets == 1
\* hands started at the table
MaxTableHands == 2
\* times a user is seated at the table (a new player id each time)
MaxSeatings == 1
\* number of shuffle outcomes considered when the table starts a hand
TableShuffles == 1

\* the users, by user id; user u asks for seat u
Users == {1, 2}
\* the stack a seat-player request names
TableStack == 2
\* the actions the clients of the table send
TableActions == {"fold", "check", "call"}

\* playerId = `player_${user_id}_${Date.now()}` of the n-th seating of user u
PlayerIdOf(u, n) == PlayerIds[u + Cardinality(Users) * (n - 1)]
\* the user a player id was made for (the user whose username is the
\* player's name)
UserOfPlayer(pid) ==
  CHOOSE u \in Users : \E n \in 1..(Len(PlayerIds) \div Cardinality(Users)) : PlayerIdOf(u, n) = pid

\* a Map as the sequence of its keys in insertion order: the keys, set(k) and
\* delete(k)
Keys(m) == {m[i] : i \in DOMAIN m}
MapSet(m, k) == IF k \in Keys(m) THEN m ELSE Append(m, k)
MapDelete(m, k) == LET Keep(x) == x # k IN SelectSeq(m, Keep)

\* the value of cache while the storage has no game for the table
NoGame == ToJSON(NewGame(Config(0, 0)))

\* the TableReadiness of the table (exists: tableReadiness.has(gameId));
\* playerIds maps a user to a player id, or to "none"
NoTable ==
  [exists |-> FALSE, seatedPlayers |-> {}, connectedPlayers |-> {}, gameStarted |-> FALSE,
   playerIds |-> [u \in Users |-> "none"]]

\* new PokerServer(port): the maps are empty, the cache has no game
NewServer ==
  [sockets |-> <<>>,            \* io.sockets.sockets: the user and liveness of each socket id
   connectedPlayers |-> <<>>,   \* socketId -> playerId of the ConnectedPlayer ("none": no entry)
   userIdToSocketId |-> [u \in Users |-> 0],
   disconnectedPlayers |-> {},  \* socket ids with a DisconnectedPlayer record
   graceTimers |-> {},          \* socket ids whose RECONNECT_TIMEOUT callback is pending
   playerGameMap |-> <<>>,      \* player ids mapped to the table's game, in insertion order
   tableReadiness |-> NoTable,
   stored |-> FALSE,            \* GameStateStorage.gameExists(gameId)
   nextHands |-> {},            \* Game objects held by pending next-hand callbacks
   seatings |-> [u \in Users |-> 0],
   rejoined |-> {},             \* history: closed sockets whose user opened a new socket
                                \* while their RECONNECT_TIMEOUT callback was pending
   refunds |-> {},              \* users credited 'Refund from leaving game'
   payouts |-> {}]              \* users credited 'Game payout'

\* the state a handler of the server works on
World == [srv |-> srv, cache |-> cache, game |-> game, hands |-> hands]

\* the sockets with a ConnectedPlayer entry
Entries(sv) == {x \in 1..Len(sv.connectedPlayers) : sv.connectedPlayers[x] # "none"}

\* GameStateStorage.saveGameState(gameId, g.toJSON())
Saved(w, g) == [w EXCEPT !.cache = ToJSON(g), !.game = g, !.srv.stored = TRUE]

\* checkAndStartGame(gameId); k selects the shuffle
CheckAndStartGame(w, k) ==
  LET t == w.srv.tableReadiness
  IN  IF ~t.exists THEN w
      ELSE IF t.gameStarted THEN w
      ELSE IF Cardinality(t.seatedPlayers \cap t.connectedPlayers) < 2 THEN w
      ELSE IF ~w.srv.stored THEN [w EXCEPT !.srv.tableReadiness.gameStarted = TRUE]
      ELSE IF NumPlayers(FromJSON(w.cache)) < 2 THEN w
      ELSE [Saved(w, StartHand(FromJSON(w.cache), k, 0))
              EXCEPT !.srv.tableReadiness.gameStarted = TRUE, !.hands = @ + 1]

\* handlePlayerWebSocketConnection(user, socketId), up to checkAndStartGame
MarkConnected(w, u, s) ==
  LET t == w.srv.tableReadiness
      g == FromJSON(w.cache)
      found == {i \in 1..NumPlayers(g) : UserOfPlayer(g.players[i].id) = u}
      first == CHOOSE i \in found : \A j \in found : i <= j
      known == t.playerIds[u] # "none"
      resolved == ~known /\ w.srv.stored /\ found # {}
      playerId == IF known THEN t.playerIds[u] ELSE g.players[first].id
  IN  [w EXCEPT
         !.srv.tableReadiness.connectedPlayers = @ \cup {u},
         !.srv.tableReadiness.playerIds = IF resolved THEN [@ EXCEPT ![u] = playerId] ELSE @,
         !.srv.playerGameMap = IF resolved THEN MapSet(@, playerId) ELSE @,
         !.srv.connectedPlayers = IF known \/ resolved THEN [@ EXCEPT ![s] = playerId] ELSE @]

\* handlePlayerWebSocketConnection(user, socketId)
HandlePlayerWebSocketConnection(w, u, s, k) ==
  IF ~w.srv.tableReadiness.exists THEN w
  ELSE IF u \notin w.srv.tableReadiness.seatedPlayers THEN w
  ELSE CheckAndStartGame(MarkConnected(w, u, s), k)

\* handleReconnection(socket, oldSocketId), for a user u whose old socket
\* has a DisconnectedPlayer record
HandleReconnection(w, u, s, old) ==
  LET sv == w.srv
      playerId == sv.connectedPlayers[old]
      t == sv.tableReadiness
  IN  [w EXCEPT
         !.srv.playerGameMap = MapSet(@, playerId),
         !.srv.connectedPlayers = [@ EXCEPT ![old] = "none", ![s] = playerId],
         !.srv.disconnectedPlayers = @ \ {old},
         !.srv.tableReadiness =
            IF t.exists /\ u \in t.seatedPlayers
            THEN [t EXCEPT !.connectedPlayers = @ \cup {u}] ELSE t]

\* unseatPlayer(gameId, userId); ok: the directory accepted the request
UnseatPlayer(w, u, ok) ==
  IF ok /\ w.srv.tableReadiness.exists
  THEN [w EXCEPT !.srv.tableReadiness.seatedPlayers = @ \ {u}] ELSE w

\* checkAndCleanupTable(gameId); deleted: the directory deleted the table
CheckAndCleanupTable(w, deleted) ==
  IF w.srv.tableReadiness.exists /\ w.srv.tableReadiness.seatedPlayers = {} /\ deleted
  THEN [w EXCEPT !.srv.tableReadiness = NoTable] ELSE w

\* handleLeaveGame(socketId)
HandleLeaveGame(w, s, ok, deleted) ==
  LET sv == w.srv
      playerId == sv.connectedPlayers[s]
      g == FromJSON(w.cache)
      refund == /\ w.srv.stored
                /\ \E i \in 1..NumPlayers(g) : g.players[i].id = playerId /\ g.players[i].stack > 0
      playersStillInGame ==
        {x \in Entries(sv) : sv.connectedPlayers[x] # playerId
                             /\ sv.connectedPlayers[x] \in Keys(sv.playerGameMap)}
      disconnectedPlayersInGame ==
        {x \in sv.disconnectedPlayers : sv.connectedPlayers[x] # playerId}
      credited == [w EXCEPT !.srv.refunds = IF refund THEN @ \cup {UserOfPlayer(playerId)} ELSE @]
      left == IF playersStillInGame = {} /\ disconnectedPlayersInGame = {}
              THEN CheckAndCleanupTable(
                     UnseatPlayer([credited EXCEPT !.cache = NoGame, !.srv.stored = FALSE],
                                  sv.sockets[s].user, ok),
                     deleted)
              ELSE UnseatPlayer(credited, sv.sockets[s].user, ok)
  IN  IF s \notin Entries(sv) THEN w
      ELSE IF playerId \notin Keys(sv.playerGameMap) THEN w
      ELSE [left EXCEPT !.srv.playerGameMap = MapDelete(@, playerId)]

\* handleDisconnect(socket) without the reconnect grace: the player leaves at
\* once
HandleDisconnectEvicts(w, s, ok, deleted) ==
  LET u == w.srv.sockets[s].user
      v == [w EXCEPT !.srv.tableReadiness.connectedPlayers = @ \ {u}]
  IN  IF s \notin Entries(v.srv) THEN [v EXCEPT !.srv.userIdToSocketId[u] = 0]
      ELSE [HandleLeaveGame(v, s, ok, deleted) EXCEPT !.srv.connectedPlayers[s] = "none"]

\* handleDisconnect(socket)
HandleDisconnect(w, s, ok, deleted) ==
  LET u == w.srv.sockets[s].user
      t == w.srv.tableReadiness
      v == [w EXCEPT !.srv.tableReadiness.connectedPlayers = @ \ {u}]
  IN  IF s \notin Entries(v.srv) THEN [v EXCEPT !.srv.userIdToSocketId[u] = 0]
      ELSE IF v.srv.connectedPlayers[s] \in Keys(v.srv.playerGameMap) /\ v.srv.stored
        THEN [v EXCEPT !.srv.disconnectedPlayers = @ \cup {s},
                       !.srv.graceTimers = @ \cup {s}]
      ELSE [HandleLeaveGame(v, s, ok, deleted) EXCEPT !.srv.connectedPlayers[s] = "none"]

\* processGamePayouts(gameId, game)
ProcessGamePayouts(w, g) ==
  [w EXCEPT !.srv.payouts =
     @ \cup {UserOfPlayer(g.players[i].id) :
               i \in {j \in 1..NumPlayers(g) :
                        /\ g.players[j].stack > 0
                        /\ \E x \in Entries(w.srv) : w.srv.connectedPlayers[x] = g.players[j].id}}]

\* handleGameAction(socketId, action): r is the result of game.handleAction
\* on the Game loaded from the cache
HandledAction(w, r) ==
  IF ~r.valid THEN w
  ELSE IF r.g.stage # "complete" THEN Saved(w, r.g)
  ELSE [ProcessGamePayouts(Saved(w, r.g), r.g) EXCEPT !.srv.nextHands = @ \cup {r.g}]

\* POST /_internal/seat-player for user u at seat u with a stack of TableStack;
\* a new game has blinds of 10 and 20 (1 and 2 in units of ten chips), the
\* stack of the request as its initialStack, no ante and no action timeout
SeatPlayer(w, u) ==
  LET g == IF ~w.srv.stored THEN NewGame([Config(0, 0) EXCEPT !.initialStack = TableStack])
           ELSE FromJSON(w.cache)
      playerId == PlayerIdOf(u, w.srv.seatings[u] + 1)
      r == AddPlayer(g, NewPlayer(playerId, TableStack, u))
      t == [w.srv.tableReadiness EXCEPT !.exists = TRUE]
  IN  IF \E i \in 1..NumPlayers(g) : UserOfPlayer(g.players[i].id) = u THEN w
      ELSE IF \E i \in 1..NumPlayers(g) : g.players[i].seatNumber = u THEN w
      ELSE IF NumPlayers(g) >= 9 THEN w
      ELSE IF r.threw THEN w
      ELSE [Saved(w, r.g) EXCEPT
              !.srv.playerGameMap = MapSet(@, playerId),
              !.srv.tableReadiness = [t EXCEPT !.seatedPlayers = @ \cup {u}],
              !.srv.seatings[u] = @ + 1]

\* the user ids an agent request names: the users of the table and a user
\* that is never seated
AgentUsers == Users \cup {Cardinality(Users) + 1}

\* the user ids the agent API posts actions for: a bot, which has no socket
\* and is never seated by the directory
AgentBots == AgentUsers \ Users

\* POST /_internal/agent-action {userId: u, gameId, action}: the status of
\* the response, the player the action was applied for and the state after
AgentAction(w, u, action) ==
  LET sv == w.srv
      g == FromJSON(w.cache)
      mine == {x \in Entries(sv) : sv.sockets[x].user = u}
      first == CHOOSE x \in mine : \A y \in mine : x <= y
      mapped == {i \in DOMAIN sv.playerGameMap : HasPlayer(g, sv.playerGameMap[i])}
      firstMapped == CHOOSE i \in mapped : \A j \in mapped : i <= j
      playerId == IF mine # {} THEN sv.connectedPlayers[first]
                  ELSE IF mapped # {} THEN sv.playerGameMap[firstMapped] ELSE "none"
      r == HandleAction(g, playerId, action, 0, 0)
  IN  IF ~sv.stored THEN [status |-> 404, playerId |-> "none", w |-> w]
      ELSE IF playerId = "none" THEN [status |-> 404, playerId |-> "none", w |-> w]
      ELSE IF ~r.valid THEN [status |-> 400, playerId |-> playerId, w |-> w]
      ELSE [status |-> 200, playerId |-> playerId, w |-> HandledAction(w, r)]

InitTable ==
  /\ game = NewGame(Config(0, 0))
  /\ now = 0
  /\ hands = 0
  /\ chips = 0
  /\ last = NoCall
  /\ cache = NoGame /\ ver = 0 /\ ops = <<>>
  /\ joined = <<>> /\ srv = NewServer

\* a handler took World to w
Ran(w) ==
  /\ srv' = w.srv /\ cache' = w.cache /\ game' = w.game /\ hands' = w.hands
  /\ UNCHANGED <<now, chips, last, ver, ops, joined>>

\* the seat-player endpoint is called for user u
SeatStep(u) ==
  /\ srv.seatings[u] < MaxSeatings
  /\ Ran(SeatPlayer(World, u))

\* io.on('connection'): user u has passed the auth middleware with a new socket
ConnectStep(u) ==
  /\ Len(srv.sockets) < MaxSockets
  /\ u # 1 => Cardinality({x \in 1..Len(srv.sockets) : srv.sockets[x].user = u}) < MaxOtherSockets
  /\ \E k \in 1..TableShuffles :
       LET s == Len(srv.sockets) + 1
           oldSocketId == srv.userIdToSocketId[u]
           opened == [World EXCEPT !.srv.sockets = Append(@, [user |-> u, live |-> TRUE]),
                                   !.srv.connectedPlayers = Append(@, "none"),
                                   !.srv.userIdToSocketId[u] = s,
                                   !.srv.rejoined =
                                      @ \cup {x \in srv.graceTimers : srv.sockets[x].user = u}]
           marked == HandlePlayerWebSocketConnection(opened, u, s, k)
       IN  Ran(IF oldSocketId # 0 /\ oldSocketId \in srv.disconnectedPlayers
               THEN HandleReconnection(marked, u, s, oldSocketId) ELSE marked)

\* socket.on('disconnect') of the live socket s
DisconnectStep(s) ==
  /\ srv.sockets[s].live
  /\ \E ok, deleted \in BOOLEAN :
       Ran(HandleDisconnect([World EXCEPT !.srv.sockets[s].live = FALSE], s, ok, deleted))

\* socket.on('leave_game') of the live socket s
LeaveStep(s) ==
  /\ srv.sockets[s].live
  /\ \E ok, deleted \in BOOLEAN : Ran(HandleLeaveGame(World, s, ok, deleted))

\* the setTimeout callback of handleDisconnect for socket s
GraceExpiryStep(s) ==
  /\ s \in srv.graceTimers
  /\ \E ok, deleted \in BOOLEAN :
       LET fired == [World EXCEPT !.srv.graceTimers = @ \ {s}]
       IN  Ran(IF s \in srv.disconnectedPlayers
               THEN HandleLeaveGame([fired EXCEPT !.srv.disconnectedPlayers = @ \ {s}],
                                    s, ok, deleted)
               ELSE fired)

\* socket.on('game_action') of the live socket s; no action is sent in the
\* three seconds between a hand and the next
GameActionStep(s) ==
  /\ srv.nextHands = {}
  /\ srv.sockets[s].live
  /\ s \in Entries(srv)
  /\ srv.connectedPlayers[s] \in Keys(srv.playerGameMap)
  /\ srv.stored
  /\ \E action \in TableActions :
       Ran(HandledAction(World, HandleAction(FromJSON(cache), srv.connectedPlayers[s],
                                             action, 0, 0)))

\* the agent API posts an action for user u; it does so during the betting
\* of a hand
AgentActionStep(u) ==
  /\ srv.nextHands = {}
  /\ srv.stored /\ FromJSON(cache).stage \in BettingStages
  /\ \E action \in TableActions : Ran(AgentAction(World, u, action).w)

\* the setTimeout callback of handleGameAction that holds the Game object
\* h: game.startHand(), which throws unless the game has two players, then
\* saveGameState
NextHandTimerStep(h) ==
  /\ hands < MaxTableHands
  /\ \E k \in 1..TableShuffles :
       Ran(IF NumPlayers(h) < 2 THEN [World EXCEPT !.srv.nextHands = @ \ {h}]
           ELSE [Saved(World, StartHand(h, k, 0)) EXCEPT !.srv.nextHands = @ \ {h},
                                                         !.hands = @ + 1])

NextTable ==
  \/ \E u \in Users : SeatStep(u)
  \/ \E u \in Users : ConnectStep(u)
  \/ \E s \in 1..MaxSockets : s <= Len(srv.sockets) /\ DisconnectStep(s)
  \/ \E s \in 1..MaxSockets : s <= Len(srv.sockets) /\ LeaveStep(s)
  \/ \E s \in 1..MaxSockets : s <= Len(srv.sockets) /\ GraceExpiryStep(s)
  \/ \E s \in 1..MaxSockets : s <= Len(srv.sockets) /\ GameActionStep(s)
  \/ \E u \in AgentBots : AgentActionStep(u)
  \/ \E h \in srv.nextHands : NextHandTimerStep(h)

SpecTable == InitTable /\ [][NextTable]_vars

(***************************************************************************)
(* SpecUpdates: handleGameAction invocations on one table, each followed   *)
(* to its broadcastGameState.  The storage is one Redis connection: the    *)
(* requests are served in the order they are issued and the handlers       *)
(* resume in the order of the replies, so a request takes effect when it   *)
(* is issued and the handler at the head of the queue resumes next.  Both  *)
(* clients stay connected: every broadcast reaches every client.  In this  *)
(* specification srv holds the log of the storage and of the emissions.    *)
(***************************************************************************)
\* hands started at the table
MaxUpdateHands == 2

UpdateIdleOp ==
  [pc |-> "idle", playerId |-> "null", action |-> "none", g |-> NewGame(Config(0, 0)),
   snap |-> 0, final |-> FALSE]

\* made: the states saved, in order; sent: for each game_state_update
\* emitted, the index in made of the state it carries; queue: the handlers
\* awaiting a reply of the storage, in the order of their requests
InitUpdates ==
  /\ game = StartHand(SeatedGame(Config(0, 0), <<5, 5>>), 1, 0)
  /\ cache = ToJSON(game)
  /\ ver = 0
  /\ ops = [o \in 1..MaxOps |-> UpdateIdleOp]
  /\ now = 0
  /\ hands = 1
  /\ chips = TotalStacks(SeatedGame(Config(0, 0), <<5, 5>>))
  /\ last = ServerCall("createGame", TRUE, 0)
  /\ joined = <<>>
  /\ srv = [made |-> <<>>, sent |-> <<>>, queue |-> <<>>]

\* the handler o issues a request to the storage
Awaiting(o) == Append(SelectSeq(srv.queue, LAMBDA x : x # o), o)
\* the reply awaited by handler o is the next to arrive
Resumes(o) == srv.queue # <<>> /\ Head(srv.queue) = o

\* socket.on('game_action'): handleGameAction up to loadGameState
UpdateArriveStep(o) ==
  /\ ops[o].pc = "idle"
  /\ \E i \in 1..Len(cache.players), action \in TableActions :
       ops' = [ops EXCEPT ![o] = [UpdateIdleOp EXCEPT !.pc = "loading",
                                    !.playerId = cache.players[i].id,
                                    !.action = action, !.g = FromJSON(cache)]]
  /\ srv' = [srv EXCEPT !.queue = Awaiting(o)]
  /\ UNCHANGED <<game, now, hands, chips, last, cache, ver, joined>>

\* handleGameAction from the reply of loadGameState to saveGameState
UpdateActStep(o) ==
  /\ ops[o].pc = "loading" /\ Resumes(o)
  /\ LET r == HandleAction(ops[o].g, ops[o].playerId, ops[o].action, 0, now)
     IN  IF ~r.valid
         THEN /\ ops' = [ops EXCEPT ![o].pc = "done"]
              /\ srv' = [srv EXCEPT !.queue = Tail(@)]
              /\ UNCHANGED <<game, cache, ver>>
         ELSE /\ cache' = ToJSON(r.g)
              /\ game' = r.g
              /\ ver' = ver + 1
              /\ ops' = [ops EXCEPT ![o].pc = "saving", ![o].g = r.g]
              /\ srv' = [srv EXCEPT !.queue = Awaiting(o), !.made = Append(@, ToJSON(r.g))]
  /\ UNCHANGED <<now, hands, chips, last, joined>>

\* from the reply of saveGameState to the loadGameState of
\* broadcastGameState
UpdatePublishStep(o) ==
  /\ ops[o].pc = "saving" /\ Resumes(o)
  /\ ops' = [ops EXCEPT ![o].pc = "reading", ![o].snap = ver]
  /\ srv' = [srv EXCEPT !.queue = Awaiting(o)]
  /\ UNCHANGED <<game, now, hands, chips, last, cache, ver, joined>>

\* broadcastGameState from the reply of loadGameState: game_state_update is
\* emitted to the clients; a completed hand schedules the next one
UpdateDeliverStep(o) ==
  /\ ops[o].pc = "reading" /\ Resumes(o)
  /\ ops' = [ops EXCEPT ![o].pc = IF ops[o].g.stage = "complete" /\ ~ops[o].final
                                  THEN "timer" ELSE "done"]
  /\ srv' = [srv EXCEPT !.queue = Tail(@), !.sent = Append(@, ops[o].snap)]
  /\ UNCHANGED <<game, now, hands, chips, last, cache, ver, joined>>

\* the setTimeout callback of handleGameAction: game.startHand() on the
\* handler's Game object, then saveGameState
UpdateNextHandStep(o) ==
  /\ ops[o].pc = "timer"
  /\ hands < MaxUpdateHands
  /\ \E k \in 1..NumShuffles : game' = StartHand(ops[o].g, k, now)
  /\ cache' = ToJSON(game')
  /\ ver' = ver + 1
  /\ ops' = [ops EXCEPT ![o].pc = "saving", ![o].g = game', ![o].final = TRUE]
  /\ srv' = [srv EXCEPT !.queue = Awaiting(o), !.made = Append(@, ToJSON(game'))]
  /\ hands' = hands + 1
  /\ UNCHANGED <<now, chips, last, joined>>

NextUpdates ==
  \/ \E o \in 1..MaxOps : UpdateArriveStep(o)
  \/ \E o \in 1..MaxOps : UpdateActStep(o)
  \/ \E o \in 1..MaxOps : UpdatePublishStep(o)
  \/ \E o \in 1..MaxOps : UpdateDeliverStep(o)
  \/ \E o \in 1..MaxOps : UpdateNextHandStep(o)

SpecUpdates == InitUpdates /\ [][NextUpdates]_vars

(***************************************************************************)
(* SpecTimers: the action timer of one table whose game has an action      *)
(* timeout of two clock units.  A handler runs to its end before the next   *)
(* one starts; a timer callback runs once the clock has reached its time,  *)
(* the next-hand callback at any moment after it was set.  In this         *)
(* specification srv holds actionTimers and the pending next-hand          *)
(* callbacks.                                                              *)
(***************************************************************************)
\* hands started at the table
MaxTimerHands == 2
\* largest clock value, in units of half the action timeout
MaxTimerNow == 3

\* PokerServer.startActionTimer(gameId, timeoutSeconds) at time t: the timer set before
\* is cleared, the new one is due timeoutSeconds later
ServerStartActionTimer(sv, g, t) ==
  [sv EXCEPT !.armed = TRUE, !.at = t + g.config.actionTimeoutSeconds]

\* PokerServer.clearActionTimer(gameId)
ServerClearActionTimer(sv) == [sv EXCEPT !.armed = FALSE]

\* two players are seated at a table that has not started
InitTimers ==
  /\ game = SeatedGame(Config(0, 2), <<5, 5>>)
  /\ now = 0
  /\ hands = 0
  /\ chips = TotalStacks(game)
  /\ last = NoCall
  /\ cache = ToJSON(game) /\ ver = 0 /\ ops = <<>>
  /\ joined = <<>>
  /\ srv = [armed |-> FALSE, at |-> 0, nextHands |-> {}]

\* Date.now() advances; a timer that is due runs before it advances further
TimerTick ==
  /\ now < MaxTimerNow
  /\ ~(srv.armed /\ srv.at <= now)
  /\ now' = now + 1
  /\ UNCHANGED <<game, hands, chips, last, serverVars>>

\* the state after a handler saved the game g
TimerSaved(g, sv) ==
  /\ game' = g /\ cache' = ToJSON(g) /\ srv' = sv
  /\ UNCHANGED <<now, chips, last, ver, ops, joined>>

\* checkAndStartGame(gameId) with two players ready: the first hand
TimerStartStep ==
  /\ game.stage = "waiting" /\ hands = 0
  /\ \E k \in 1..TableShuffles :
       LET g == StartHand(FromJSON(cache), k, now)
       IN  TimerSaved(g, ServerStartActionTimer(srv, g, now))
  /\ hands' = hands + 1

\* handleGameAction(socketId, action) for the player pid
TimerActionStep(pid, action) ==
  /\ srv.nextHands = {}
  /\ LET r == HandleAction(FromJSON(cache), pid, action, 0, now)
     IN  /\ r.valid
         /\ TimerSaved(r.g,
              IF r.g.stage = "complete" THEN [srv EXCEPT !.nextHands = @ \cup {r.g}]
              ELSE IF r.g.stage # "showdown" THEN ServerStartActionTimer(srv, r.g, now)
              ELSE srv)
  /\ UNCHANGED hands

\* POST /_internal/agent-action for the player pid
TimerAgentStep(pid, action) ==
  /\ srv.nextHands = {}
  /\ game.stage \in BettingStages
  /\ LET r == HandleAction(FromJSON(cache), pid, action, 0, now)
     IN  /\ r.valid
         /\ TimerSaved(r.g,
              IF r.g.stage = "complete" THEN [srv EXCEPT !.nextHands = @ \cup {r.g}]
              ELSE srv)
  /\ UNCHANGED hands

\* the callback of the action timer: handleActionTimeout(gameId)
TimerFireStep ==
  /\ srv.armed /\ srv.at <= now
  /\ LET fired == [srv EXCEPT !.armed = FALSE]
         g == FromJSON(cache)
         r == HandleTimeout(g, now)
     IN  IF ~HasActionTimedOut(g, now) \/ ~r.valid THEN TimerSaved(game, fired)
         ELSE TimerSaved(r.g,
                IF r.g.stage = "complete"
                THEN [ServerClearActionTimer(fired) EXCEPT !.nextHands = @ \cup {r.g}]
                ELSE ServerStartActionTimer(fired, r.g, now))
  /\ UNCHANGED hands

\* the setTimeout callback that holds the Game object h: game.startHand(),
\* saveGameState, startActionTimer
TimerNextHandStep(h) ==
  /\ hands < MaxTimerHands
  /\ \E k \in 1..TableShuffles :
       LET g == StartHand(h, k, now)
       IN  TimerSaved(g, [ServerStartActionTimer(srv, g, now) EXCEPT !.nextHands = @ \ {h}])
  /\ hands' = hands + 1

NextTimers ==
  \/ TimerTick
  \/ TimerStartStep
  \/ \E i \in 1..NumPlayers(game), action \in TableActions :
       TimerActionStep(game.players[i].id, action)
  \/ \E i \in 1..NumPlayers(game), action \in TableActions :
       TimerAgentStep(game.players[i].id, action)
  \/ TimerFireStep
  \/ \E h \in srv.nextHands : TimerNextHandStep(h)

SpecTimers == InitTimers /\ [][NextTimers]_vars

(***************************************************************************)
(* SpecRuns: two five-card hands, each a run of five consecutive values    *)
(* (A-2-3-4-5 included), are evaluated and compared as at a showdown.  In  *)
(* this specification srv holds the two hands and their evaluation.        *)
(***************************************************************************)
\* the top card of a run: 5 is the wheel A-2-3-4-5, 14 is 10-J-Q-K-A
RunTops == 5..14

\* the five values of the run with the given top card, in the order held
RunValues(top) ==
  IF top = 5 THEN <<14, 2, 3, 4, 5>> ELSE Tup([i \in 1..5 |-> top - 5 + i])

\* createCards: the run with the given top card, of one suit or of two
RunHand(top, suited) ==
  Tup([i \in 1..5 |->
         Card(IF suited \/ i > 1 THEN "hearts" ELSE "spades", Ranks[RunValues(top)[i] - 1])])

RunInput(top, suited) == [top |-> top, suited |-> suited, cards |-> RunHand(top, suited)]

NoEvaluation == [rank |-> 0, tiebreakers |-> <<>>]

InitRuns ==
  /\ game = NewGame(Config(0, 0))
  /\ now = 0
  /\ hands = 0
  /\ chips = 0
  /\ last = NoCall
  /\ cache = NoGame /\ ver = 0 /\ ops = <<>>
  /\ joined = <<>>
  /\ \E t1 \in RunTops, t2 \in RunTops, s1 \in BOOLEAN, s2 \in BOOLEAN :
       srv = [hand1 |-> RunInput(t1, s1), hand2 |-> RunInput(t2, s2), done |-> FALSE,
              eval1 |-> NoEvaluation, eval2 |-> NoEvaluation, compared |-> 0]

\* evaluate5Cards on both hands, then compareHands
EvaluateRunsStep ==
  /\ ~srv.done
  /\ srv' = [srv EXCEPT !.done = TRUE,
                        !.eval1 = Evaluate5Cards(srv.hand1.cards),
                        !.eval2 = Evaluate5Cards(srv.hand2.cards),
                        !.compared = CompareHands(Evaluate5Cards(srv.hand1.cards),
                                                  Evaluate5Cards(srv.hand2.cards))]
  /\ UNCHANGED <<game, now, hands, chips, last, cache, ver, ops, joined>>

NextRuns == EvaluateRunsStep

SpecRuns == InitRuns /\ [][NextRuns]_vars

(***************************************************************************)
(* SpecStart: the connections of the users of one table with two seats     *)
(* taken and no hand started.  A connection handler runs up to its next    *)
(* await and resumes in a later step, so the handlers of several           *)
(* connections interleave at their awaits.  In this specification srv is   *)
(* the server with the calls in flight, and hands counts the executions of *)
(* startHand.                                                              *)
(***************************************************************************)
\* connections made to the server
MaxStartCalls == 3

\* the positions at which a connection handler has returned
StartReturned == {"unseated", "waiting", "already", "nodata", "failed", "started"}

\* checkAndStartGame marking the table as started after its first await
\* instead of before it
ClaimStartLate(t) == t

\* tableState.gameStarted = true
ClaimStart(t) == [t EXCEPT !.gameStarted = TRUE]

\* checkAndStartGame up to its first await: the table state after it and
\* the position of the caller
BeginCheckAndStartGame(t) ==
  IF t.gameStarted THEN [t |-> t, pc |-> "already"]
  ELSE IF Cardinality(t.seatedPlayers \cap t.connectedPlayers) < 2 THEN [t |-> t, pc |-> "waiting"]
  ELSE [t |-> ClaimStart(t), pc |-> "load"]

\* handlePlayerWebSocketConnection from the resolved playerId ("none": not
\* resolved) into checkAndStartGame, for call c of user u on socket s
EnterTable(sv, c, u, s, playerId) ==
  LET entered == IF playerId = "none" THEN sv ELSE [sv EXCEPT !.connectedPlayers[s] = playerId]
      b == BeginCheckAndStartGame(entered.tableReadiness)
      starting == \E d \in DOMAIN sv.calls : d # c /\ sv.calls[d].pc \in {"load", "saved"}
  IN  [entered EXCEPT !.tableReadiness = b.t,
                      !.calls[c].pc = b.pc,
                      !.calls[c].overlapped = (b.pc = "already" /\ starting)]

InitStart ==
  LET seated == SeatPlayer(SeatPlayer([srv |-> NewServer, cache |-> NoGame,
                                       game |-> NewGame(Config(0, 0)), hands |-> 0], 1), 2)
  IN  /\ game = seated.game
      /\ now = 0
      /\ hands = 0
      /\ chips = TotalStacks(seated.game)
      /\ last = NoCall
      /\ cache = seated.cache /\ ver = 0 /\ ops = <<>>
      /\ joined = <<>>
      /\ srv = [sockets |-> seated.srv.sockets,
                connectedPlayers |-> seated.srv.connectedPlayers,
                userIdToSocketId |-> seated.srv.userIdToSocketId,
                playerGameMap |-> seated.srv.playerGameMap,
                tableReadiness |-> seated.srv.tableReadiness,
                stored |-> seated.srv.stored,
                calls |-> <<>>]

\* io.on('connection') for a new socket of user u, up to the first await of
\* handlePlayerWebSocketConnection
StartConnectStep(u) ==
  /\ Len(srv.calls) < MaxStartCalls
  /\ LET s == Len(srv.sockets) + 1
         c == Len(srv.calls) + 1
         t == srv.tableReadiness
         opened == [srv EXCEPT !.sockets = Append(@, [user |-> u, live |-> TRUE]),
                               !.connectedPlayers = Append(@, "none"),
                               !.userIdToSocketId[u] = s,
                               !.calls = Append(@, [user |-> u, socket |-> s, pc |-> "resolve",
                                                    overlapped |-> FALSE])]
         marked == [opened EXCEPT !.tableReadiness.connectedPlayers = @ \cup {u}]
     IN  srv' = IF ~t.exists \/ u \notin t.seatedPlayers
                  THEN [opened EXCEPT !.calls[c].pc = "unseated"]
                ELSE IF t.playerIds[u] # "none"
                  THEN EnterTable(marked, c, u, s, t.playerIds[u])
                ELSE marked
  /\ UNCHANGED <<game, now, hands, chips, last, cache, ver, ops, joined>>

\* call c resumes with the game data it awaited, looks its player up and
\* enters checkAndStartGame
StartResolveStep(c) ==
  /\ srv.calls[c].pc = "resolve"
  /\ LET u == srv.calls[c].user
         g == FromJSON(cache)
         found == {i \in 1..NumPlayers(g) : UserOfPlayer(g.players[i].id) = u}
         first == CHOOSE i \in found : \A j \in found : i <= j
         known == srv.tableReadiness.playerIds[u]
     IN  srv' = IF known # "none" THEN EnterTable(srv, c, u, srv.calls[c].socket, known)
                ELSE IF srv.stored /\ found # {}
                  THEN EnterTable([srv EXCEPT
                                     !.tableReadiness.playerIds[u] = g.players[first].id,
                                     !.playerGameMap = MapSet(@, g.players[first].id)],
                                  c, u, srv.calls[c].socket, g.players[first].id)
                ELSE EnterTable(srv, c, u, srv.calls[c].socket, "none")
  /\ UNCHANGED <<game, now, hands, chips, last, cache, ver, ops, joined>>

\* call c resumes in checkAndStartGame with the game data it awaited, starts
\* the hand and saves the game
StartLoadStep(c) ==
  /\ srv.calls[c].pc = "load"
  /\ \E k \in 1..TableShuffles :
       LET g == FromJSON(cache)
       IN  IF ~srv.stored
             THEN /\ srv' = [srv EXCEPT !.calls[c].pc = "nodata"]
                  /\ UNCHANGED <<game, cache, hands>>
           ELSE IF NumPlayers(g) < 2
             THEN /\ srv' = [srv EXCEPT !.calls[c].pc = "failed",
                                        !.tableReadiness.gameStarted = FALSE]
                  /\ UNCHANGED <<game, cache, hands>>
           ELSE /\ game' = StartHand(g, k, 0)
                /\ cache' = ToJSON(game')
                /\ hands' = hands + 1
                /\ srv' = [srv EXCEPT !.calls[c].pc = "saved"]
  /\ UNCHANGED <<now, chips, last, ver, ops, joined>>

\* call c resumes after the save and broadcasts the game state
StartBroadcastStep(c) ==
  /\ srv.calls[c].pc = "saved"
  /\ srv' = [srv EXCEPT !.calls[c].pc = "started"]
  /\ UNCHANGED <<game, now, hands, chips, last, cache, ver, ops, joined>>

NextStart ==
  \/ \E u \in Users : StartConnectStep(u)
  \/ \E c \in DOMAIN srv.calls : StartResolveStep(c)
  \/ \E c \in DOMAIN srv.calls : StartLoadStep(c)
  \/ \E c \in DOMAIN srv.calls : StartBroadcastStep(c)

SpecStart == InitStart /\ [][NextStart]_vars

(***************************************************************************)
(* Properties of the hand state machine                                    *)
(***************************************************************************)
\* the step is a call of handleAction that returned valid: true
AdmittedStep == last'.op = "action" /\ last'.valid
\* the step is a call of handleAction that returned valid: false
RejectedStep == last'.op = "action" /\ ~last'.valid
\* the Game inside an admitted call after the switch on the action and before
\* nextTurn(): the state in which the betting round is found complete
AtRoundEnd == ApplyAction(game, game.currentPlayerIndex, last'.action, last'.amount).g

\* C2: at every street change (a betting round ending with more than one
\* non-folded seat), every seat that is neither folded nor all-in has a
\* current-round bet equal to the bet to match at the moment the round ends.
C2_BetsMatchedAtStreetChange ==
  [][(AdmittedStep /\ hands > 0 /\ game.stage \in BettingStages
        /\ game'.stage # game.stage /\ Cardinality(ActiveIdx(AtRoundEnd)) > 1)
       => \A i \in CanActIdx(AtRoundEnd) :
            PlayerAt(AtRoundEnd, i).currentBet = AtRoundEnd.currentBet]_vars

\* C3: in a preflop round without a raise the round does not end before the
\* big blind seat has acted, unless one non-folded seat remains: when the
\* first action of a hand is a call or a fold by another seat and the big
\* blind and at least one other seat can still act, the stage is still
\* preflop afterwards, and heads-up the big blind is the current seat.
C3_BigBlindActsBeforeFlop ==
  [][(AdmittedStep /\ last.op = "startHand" /\ last'.action \in {"call", "fold"}
        /\ last'.playerId # PlayerAt(game, game.bigBlindIndex).id
        /\ game.bigBlindIndex \in CanActIdx(game')
        /\ Cardinality(CanActIdx(game')) > 1)
       => /\ game'.stage = "preflop"
          /\ NumPlayers(game) = 2 => game'.currentPlayerIndex = game'.bigBlindIndex]_vars

\* C4: when an admitted action leaves several non-folded seats of which at
\* most one is not all-in, and that seat has matched the bet, no seat is asked
\* to act again: the hand is dealt out and complete after the action.
C4_NoBettingAgainstAllIn ==
  [][(AdmittedStep /\ hands > 0 /\ game.stage \in BettingStages
        /\ Cardinality(ActiveIdx(AtRoundEnd)) > 1
        /\ Cardinality(CanActIdx(AtRoundEnd)) <= 1
        /\ \A i \in CanActIdx(AtRoundEnd) :
             PlayerAt(AtRoundEnd, i).currentBet >= AtRoundEnd.currentBet)
       => game'.stage = "complete" /\ Len(game'.communityCards) = 5]_vars

\* the step submits again the action admitted by the step before it
ReplayStep ==
  LET r == HandleAction(game, last.playerId, last.action, last.amount, now)
  IN  /\ last.op = "action" /\ last.valid
      /\ last'.op = "action" /\ last'.valid = r.valid /\ game' = r.g
      /\ r.valid => last' = last

\* C8: when an action (seat, kind, amount) is admitted and the identical
\* action is submitted again as the very next operation, the second
\* submission is rejected and changes nothing.
C8_ReplayRejected ==
  [][ReplayStep => (~last'.valid /\ game' = game)]_vars

\* C9: an action is admitted only if the stage is a betting stage and the
\* acting seat is the current seat, active, not folded and not all-in.
C9_AdmittedOnlyWhenEligible ==
  [][AdmittedStep
       => /\ game.stage \in BettingStages
          /\ PlayerAt(game, game.currentPlayerIndex).id = last'.playerId
          /\ game.currentPlayerIndex \in CanActIdx(game)]_vars

\* C10: whenever handleAction returns valid: false, the Game is exactly as
\* it was before the call.
C10_RejectedLeavesGameUnchanged ==
  [][RejectedStep => game' = game]_vars

\* C1: when the action deadline elapses while seat s is the current seat in
\* a betting stage, the timeout handling applies a check for s if s's bet is
\* at least the bet to match and a fold otherwise, and that action is
\* admitted: the hand is as if s had submitted it before the deadline (up to
\* the start time of the next turn).
C1_TimeoutActionAdmitted ==
  [][last'.op = "timeout"
       => LET p == PlayerAt(game, game.currentPlayerIndex)
              a == IF p.currentBet >= game.currentBet THEN "check" ELSE "fold"
              r == HandleAction(game, p.id, a, 0, game.actionStartTime)
          IN  /\ last'.valid
              /\ [game' EXCEPT !.actionStartTime = 0] = [r.g EXCEPT !.actionStartTime = 0]]_vars

(***************************************************************************)
(* Properties of the server                                                *)
(***************************************************************************)
\* C5: deserialising the serialised form of a Game yields a Game equal to
\* it: a handler that has loaded the value saved last holds, after fromJSON,
\* the Game that was saved, with every card's suit and rank.
C5_RoundTrip ==
  \A o \in DOMAIN ops : (ops[o].pc = "loaded" /\ ops[o].read = ver) => ops[o].g = game

\* C6: mutations of one table's Game are serialised: no handler saves a
\* state computed from a version of the table that another save has replaced.
C6_SavesFromCurrentVersion ==
  [][ver' # ver => last'.base = ver]_vars

\* C7: of the actions submitted concurrently for one turn (handled on the
\* same version of the table), at most one is admitted.
C7_OneAdmissionPerTurn ==
  \A o1, o2 \in DOMAIN ops :
    (o1 # o2 /\ ops[o1].admitted /\ ops[o2].admitted) => ops[o1].read # ops[o2].read

(***************************************************************************)
(* Invariants of the hand                                                  *)
(***************************************************************************)
\* C11: in every reachable state whose stage is preflop, flop, turn or river
\* the current seat (there is exactly one, players[currentPlayerIndex]) is
\* active-in-hand, not folded and not all-in.
C11_CurrentSeatCanAct ==
  game.stage \in BettingStages => game.currentPlayerIndex \in CanActIdx(game)

RECURSIVE SumTotalBets(_, _)
\* the sum of the seats' getTotalBetThisRound(), from position i on
SumTotalBets(players, i) ==
  IF i > Len(players) THEN 0
  ELSE players[i].totalBetThisRound + SumTotalBets(players, i + 1)

\* C12: at every point of a hand the pot equals the sum over all seats
\* (folded ones included) of their cumulative bets in this hand.
C12_PotIsSumOfBets == game.pot = SumTotalBets(game.players, 1)

\* a flop on which a seat that has put chips in has folded
C12_Witness ==
  /\ hands > 0 /\ game.stage = "flop" /\ game.pot > 0
  /\ \E i \in 1..NumPlayers(game) :
       game.players[i].hasFolded /\ game.players[i].totalBetThisRound > 0

\* C13: in every reachable state every seat has stack >= 0, and a seat's
\* stack is 0 if and only if the seat is flagged all-in.
C13_StackZeroIffAllIn ==
  \A i \in 1..NumPlayers(game) :
    /\ game.players[i].stack >= 0
    /\ game.players[i].stack = 0 <=> game.players[i].isAllIn

\* the largest getCurrentBet() of the seats
MaxCurrentBet(g) ==
  CHOOSE b \in {g.players[i].currentBet : i \in 1..NumPlayers(g)} :
    \A i \in 1..NumPlayers(g) : g.players[i].currentBet <= b

\* C14: in every reachable state of a betting stage the bet to match equals
\* the maximum of the seats' current-round bets.
C14_CurrentBetIsMaxBet ==
  game.stage \in BettingStages => game.currentBet = MaxCurrentBet(game)

(***************************************************************************)
(* Properties of the betting rules                                         *)
(***************************************************************************)
\* the step is an admitted bet or raise after which the acting seat is not
\* all-in
SizedRaiseStep ==
  /\ AdmittedStep /\ last'.action \in {"bet", "raise"}
  /\ ~PlayerAt(game', game.currentPlayerIndex).isAllIn

\* C15: every admitted bet or raise that does not put the acting seat all-in
\* has an increment of at least max(lastRaiseSize, bigBlind).
C15_MinimumRaise ==
  [][SizedRaiseStep
       => /\ last'.amount >= game.lastRaiseSize
          /\ last'.amount >= game.config.bigBlind]_vars

\* the step is an admitted action in a betting stage that puts the acting
\* seat all-in and raises the bet to match by less than the minimum raise
ShortAllInStep ==
  /\ AdmittedStep /\ game.stage \in BettingStages
  /\ PlayerAt(AtRoundEnd, game.currentPlayerIndex).isAllIn
  /\ AtRoundEnd.currentBet > game.currentBet
  /\ AtRoundEnd.currentBet - game.currentBet < GetMinimumRaise(game)

\* C16: an all-in that raises the bet to match by less than the current
\* minimum-raise increment is call-equivalent: the all-in seat does not become
\* the last aggressor and lastRaiseSize is unchanged.
C16_ShortAllInIsCall ==
  [][ShortAllInStep
       => /\ AtRoundEnd.lastRaiserIndex = game.lastRaiserIndex
          /\ AtRoundEnd.lastRaiseSize = game.lastRaiseSize]_vars

\* C17: every admitted action satisfies the precondition of its kind: check
\* only when the seat's current-round bet is at least the bet to match, call
\* only when the bet to match exceeds the seat's bet, bet only when the bet
\* to match is 0, raise only when it is positive.
C17_KindPreconditions ==
  [][AdmittedStep
       => LET bet == PlayerAt(game, game.currentPlayerIndex).currentBet
          IN  /\ last'.action = "check" => bet >= game.currentBet
              /\ last'.action = "call" => game.currentBet > bet
              /\ last'.action = "bet" => game.currentBet = 0
              /\ last'.action = "raise" => game.currentBet > 0]_vars

(***************************************************************************)
(* Properties of the end of a hand                                         *)
(***************************************************************************)
\* the step is an admitted fold that leaves exactly one non-folded active seat
FoldToOneStep ==
  /\ AdmittedStep /\ last'.action = "fold"
  /\ Cardinality(ActiveIdx(AtRoundEnd)) = 1

\* C18: when an admitted fold leaves exactly one non-folded active seat, the
\* hand completes in that same transition: the stage becomes complete, no
\* further community card is dealt, the remaining seat's stack grows by
\* exactly the pot and no other stack changes.
C18_FoldToOneCompletes ==
  [][FoldToOneStep
       => /\ game'.stage = "complete"
          /\ game'.communityCards = game.communityCards
          /\ \A i \in 0..(NumPlayers(game) - 1) :
               PlayerAt(game', i).stack =
                 PlayerAt(game, i).stack
                   + (IF i \in ActiveIdx(AtRoundEnd) THEN game.pot ELSE 0)]_vars

\* a hand that a fold has just ended before the river, with chips in the pot
C18_Witness ==
  /\ hands > 0 /\ last.op = "action" /\ last.valid /\ last.action = "fold"
  /\ game.stage = "complete" /\ Cardinality(ActiveIdx(game)) = 1
  /\ Len(game.communityCards) < 5 /\ game.pot > 0

\* the step is an admitted action in a betting stage that ends the betting
\* with more than one non-folded active seat and leaves the betting stages
ShowdownStep ==
  /\ AdmittedStep /\ hands > 0 /\ game.stage \in BettingStages
  /\ Cardinality(ActiveIdx(AtRoundEnd)) > 1
  /\ game'.stage \in {"showdown", "complete"}

\* the best five-card hand of the seat at index i out of its hole cards and
\* the community cards cc
BestHandOf(g, i, cc) == EvaluateHandOf(PlayerAt(g, i).holeCards \o cc)

\* the seats among act whose best hand no seat among act beats
MaximalSeats(g, act, cc) ==
  {i \in act : \A j \in act : CompareHands(BestHandOf(g, i, cc), BestHandOf(g, j, cc)) >= 0}

\* every stack of h is the stack of g plus share for the seats of winners
PaidOut(g, h, winners, share) ==
  \A i \in 0..(NumPlayers(g) - 1) :
    PlayerAt(h, i).stack = PlayerAt(g, i).stack + (IF i \in winners THEN share ELSE 0)

\* C19: at showdown the winners are exactly the non-folded active seats whose
\* best five-card hand out of hole and community cards is maximal under
\* compare; each of the k winners' stacks grows by floor(pot / k) (the whole
\* pot for a sole winner), no other stack changes, and the stage becomes
\* complete.
C19_ShowdownPaysBestHands ==
  [][ShowdownStep
       => /\ game'.stage = "complete"
          /\ Len(game'.communityCards) = 5
          /\ PaidOut(AtRoundEnd, game',
                     MaximalSeats(game, ActiveIdx(AtRoundEnd), game'.communityCards),
                     AtRoundEnd.pot \div
                       Cardinality(MaximalSeats(game, ActiveIdx(AtRoundEnd),
                                                game'.communityCards)))]_vars

\* a showdown that has just split the pot between two seats
C19_Witness ==
  /\ hands > 0 /\ last.op = "action" /\ last.valid
  /\ game.stage = "complete" /\ Len(game.communityCards) = 5 /\ game.pot > 0
  /\ Cardinality(MaximalSeats(game, ActiveIdx(game), game.communityCards)) = 2

(***************************************************************************)
(* Properties of the positions                                             *)
(***************************************************************************)
\* the seats dealt into the hand that startHand has just begun: those that
\* had chips (resetForNewHand leaves exactly them active)
Participants(g) == {i \in 0..(NumPlayers(g) - 1) : PlayerAt(g, i).isActive}

\* the number of seats to pass from index from to reach index i going up
\* with wrap-around (a full round to come back to from itself)
SeatsAfter(g, from, i) ==
  IF i = from THEN NumPlayers(g) ELSE (i - from + NumPlayers(g)) % NumPlayers(g)

\* C20: each startHand assigns the dealer button to the next participating
\* seat after the previous dealer in seat order with wrap-around: the dealer
\* is never a seat that sits out the hand.
C20_DealerIsNextParticipant ==
  [][last'.op = "startHand"
       => /\ game'.dealerIndex \in Participants(game')
          /\ \A i \in Participants(game') :
               SeatsAfter(game, game.dealerIndex, game'.dealerIndex)
                 <= SeatsAfter(game, game.dealerIndex, i)]_vars

(***************************************************************************)
(* Properties of addPlayer                                                 *)
(***************************************************************************)
\* the players added while the current hand was in progress
JoinedThisHand ==
  {joined[i].id : i \in {j \in DOMAIN joined : joined[j].hand = hands /\ joined[j].inProgress}}
\* the players added since the current hand was started
AddedThisHand == {joined[i].id : i \in {j \in DOMAIN joined : joined[j].hand = hands}}
\* the player of the game with the given id
PlayerOf(g, pid) == PlayerAt(g, PlayerIndexOf(g, pid))

\* the step is a call of addPlayer, for a seat that canPlayerJoinAtSeat
\* refuses, while a hand is in progress
WrongSeatStep ==
  last'.op = "addPlayer" /\ InProgress(game) /\ ~CanPlayerJoinAtSeat(game, last'.amount)

\* C21: whenever addPlayer succeeds while the stage is preflop, flop, turn or
\* river, the new player is inactive for the rest of the current hand (no
\* hole cards, no share of the award: its stack stays what it brought) and,
\* provided no other seat is added before then, it is the big blind of the
\* next hand that is started.
C21_JoinerSitsOutThenBigBlind ==
  /\ [](\A pid \in JoinedThisHand :
          /\ ~PlayerOf(game, pid).isActive
          /\ PlayerOf(game, pid).holeCards = <<>>
          /\ PlayerOf(game, pid).stack = game.config.initialStack)
  /\ [][(last'.op = "startHand" /\ Cardinality(AddedThisHand) = 1)
          => \A pid \in JoinedThisHand :
               PlayerAt(game', game'.bigBlindIndex).id = pid]_vars

\* a player added in the middle of the first hand has posted the big blind
\* of the second
C21_Witness ==
  /\ hands = 2 /\ last.op = "startHand"
  /\ \E i \in DOMAIN joined :
       /\ joined[i].hand = 1 /\ joined[i].inProgress
       /\ PlayerAt(game, game.bigBlindIndex).id = joined[i].id
       /\ PlayerAt(game, game.bigBlindIndex).currentBet = game.config.bigBlind

ReadyUsers(sv) == sv.tableReadiness.seatedPlayers \cap sv.tableReadiness.connectedPlayers
\* the step calls game.startHand()
HandStarts == hands' = hands + 1

\* C23: a hand is started on a table, the first hand as well as each next
\* hand after a completed one, only while at least two distinct users are
\* both seated and connected at that table.
C23_HandStartsOnlyWhenReady ==
  [][HandStarts => Cardinality(ReadyUsers(srv')) >= 2]_vars

\* the users with a live authenticated socket
LiveUsers(sv) == {sv.sockets[x].user : x \in {y \in 1..Len(sv.sockets) : sv.sockets[y].live}}
\* the stored game of the table is in stage waiting
TableWaiting == srv.stored /\ FromJSON(cache).stage = "waiting"
\* no setTimeout callback of the server is pending
NoTimerPending == srv.graceTimers = {} /\ srv.nextHands = {}

\* C24: a table in stage waiting with at least two distinct users seated and
\* holding live connections gets a hand started, whatever the order of the
\* seatings and connections: the server never comes to rest (every handler
\* returned, no timer pending) with such a table still waiting.
C24_WaitingTableStarts ==
  (/\ TableWaiting
   /\ Cardinality(srv.tableReadiness.seatedPlayers \cap LiveUsers(srv)) >= 2)
    => ~NoTimerPending

\* C25: at every moment each user in the table's connected set is also in
\* its seated set, after any sequence of seat, connect, disconnect,
\* reconnect, leave and unseat operations.
C25_ConnectedAreSeated ==
  srv.tableReadiness.connectedPlayers \subseteq srv.tableReadiness.seatedPlayers

\* the live sockets of user u
LiveSocketsOf(sv, u) == {x \in 1..Len(sv.sockets) : sv.sockets[x].live /\ sv.sockets[x].user = u}

\* C26: at every moment there is at most one live socket per user id: a new
\* authenticated connection for a user who already has a live socket does
\* not leave two live sockets bound to that user.
C26_OneLiveSocketPerUser ==
  \A u \in Users : Cardinality(LiveSocketsOf(srv, u)) <= 1

\* the step is the disconnect of a socket
SocketCloses == \E x \in 1..Len(srv.sockets) : srv.sockets[x].live /\ ~srv'.sockets[x].live
\* the stored game of the table is in the middle of a hand
HandInProgress == srv.stored /\ InProgress(FromJSON(cache))

\* C27: a socket disconnect during an in-progress hand changes nothing in
\* the Hand (stage, pot, bets, stacks, cards, current seat): the stored game
\* is the same after it, nobody is unseated, refunded or paid and no next
\* hand is scheduled; only the connection bookkeeping and the disconnect
\* record change.
C27_DisconnectLeavesHand ==
  [][(SocketCloses /\ HandInProgress)
       => /\ cache' = cache /\ game' = game /\ hands' = hands
          /\ srv'.stored
          /\ srv'.playerGameMap = srv.playerGameMap
          /\ srv'.tableReadiness.seatedPlayers = srv.tableReadiness.seatedPlayers
          /\ srv'.tableReadiness.gameStarted = srv.tableReadiness.gameStarted
          /\ srv'.refunds = srv.refunds /\ srv'.payouts = srv.payouts
          /\ srv'.nextHands = srv.nextHands]_vars

\* the only socket of a seated player was closed in the middle of the first
\* hand: the player has a disconnect record and is not connected, the hand
\* is still in progress with the cards of both players
C27_Witness ==
  /\ hands = 1 /\ HandInProgress
  /\ \E x \in srv.disconnectedPlayers :
       /\ ~srv.sockets[x].live /\ x \in srv.graceTimers
       /\ Cardinality({y \in 1..Len(srv.sockets) : srv.sockets[y].user = srv.sockets[x].user}) = 1
       /\ srv.sockets[x].user \notin srv.tableReadiness.connectedPlayers
       /\ srv.sockets[x].user \in srv.tableReadiness.seatedPlayers
  /\ \A i \in 1..NumPlayers(FromJSON(cache)) : Len(FromJSON(cache).players[i].holeCards) = 2

\* the step is a new connection that follows the disconnect of socket x of
\* the same user, within the reconnect grace of x
Reconnects(x) == x \in srv'.rejoined /\ x \notin srv.rejoined
\* the step is the RECONNECT_TIMEOUT callback of socket x
GraceExpires(x) == x \in srv.graceTimers /\ x \notin srv'.graceTimers

\* C28: if a seated user's socket disconnects and the same user connects
\* with a new socket before the reconnect grace elapses, the user is
\* connected at the table again and the disconnect record is destroyed, and
\* the expiry of that grace period neither removes the user from the table
\* nor reports a payout for them.
C28_ReconnectCancelsGrace ==
  [][\A x \in 1..Len(srv.sockets) :
       /\ (/\ Reconnects(x)
           /\ x \in srv.disconnectedPlayers
           /\ srv.sockets[x].user \in srv.tableReadiness.seatedPlayers)
            => /\ srv.sockets[x].user \in srv'.tableReadiness.connectedPlayers
               /\ x \notin srv'.disconnectedPlayers
       /\ (GraceExpires(x) /\ x \in srv.rejoined)
            => /\ srv'.tableReadiness.seatedPlayers = srv.tableReadiness.seatedPlayers
               /\ srv'.refunds = srv.refunds
               /\ srv'.playerGameMap = srv.playerGameMap]_vars

\* the users that were seated and have left the table: handleLeaveGame ran
\* for their player and the directory accepted the unseat request
LeftUsers(sv) ==
  {u \in Users : /\ sv.seatings[u] > 0
                 /\ PlayerIdOf(u, sv.seatings[u]) \notin Keys(sv.playerGameMap)
                 /\ u \notin sv.tableReadiness.seatedPlayers}

\* C29: after a user leaves a table, explicitly or through reconnect-grace
\* expiry, the user's seat is out of the Hand at the next hand boundary: a
\* hand started after the leave deals that user no cards, posts no blind
\* for them and does not make them the current seat.
C29_LeaverOutOfNextHand ==
  [][HandStarts
       => \A u \in LeftUsers(srv) : \A i \in 1..NumPlayers(game') :
            UserOfPlayer(game'.players[i].id) = u
              => /\ game'.players[i].holeCards = <<>>
                 /\ game'.players[i].currentBet = 0
                 /\ game'.currentPlayerIndex # i - 1]_vars

\* the step deletes the game of the table from the storage
GameDeleted == srv.stored /\ ~srv'.stored
\* the users whose player leaves the game in the step
Leavers == {UserOfPlayer(pid) : pid \in Keys(srv.playerGameMap) \ Keys(srv'.playerGameMap)}

\* C30: on leave, the game is deleted from the cache only if the table is
\* empty, that is only if no user other than the one leaving is still
\* seated at the table, connected or not.
C30_DeletedOnlyWhenEmpty ==
  [][GameDeleted => srv.tableReadiness.seatedPlayers \subseteq Leavers]_vars

\* the users to whom the step reports a wallet credit that they had not been
\* reported before
NewlyCredited == (srv'.payouts \cup srv'.refunds) \ (srv.payouts \cup srv.refunds)

\* C31: leaving the table is the only point at which a payout of a seat's
\* chips is reported: a step that reports a wallet credit for a user is the
\* leave of that user, and completing a hand reports none.
C31_CreditsOnlyAtLeave ==
  [][/\ NewlyCredited \subseteq Leavers
     /\ srv'.payouts = srv.payouts]_vars

(***************************************************************************)
(* Snapshots of the game sent to users                                     *)
(***************************************************************************)
\* Player.getPublicState(): the hole cards are replaced by their number
GetPublicState(p) == [p EXCEPT !.holeCards = Len(p.holeCards)]

\* Game.getGameState(), without the remaining action time
GetGameState(g) ==
  [stage |-> g.stage, pot |-> g.pot, communityCards |-> g.communityCards,
   currentPlayerIndex |-> g.currentPlayerIndex, currentBet |-> g.currentBet,
   players |-> [i \in 1..NumPlayers(g) |-> GetPublicState(g.players[i])],
   dealerIndex |-> g.dealerIndex, smallBlindIndex |-> g.smallBlindIndex,
   bigBlindIndex |-> g.bigBlindIndex,
   actionTimeoutSeconds |-> g.config.actionTimeoutSeconds]

\* Game.getPlayerGameState(playerId)
GetPlayerGameState(g, playerId) ==
  [gameState |-> GetGameState(g),
   myCards |-> IF HasPlayer(g, playerId) THEN PlayerOf(g, playerId).holeCards ELSE <<>>]

\* the user ids a game-state query names: the users of the table and a user
\* that is never seated
QueryUsers == Users \cup {Cardinality(Users) + 1}

\* GET /_internal/game/:gameId/state?userId=u on the server sv with the
\* stored game data: the status, the player the snapshot is made for and the
\* snapshot
GameStateQuery(sv, data, u) ==
  LET g == FromJSON(data)
      mine == {x \in Entries(sv) : sv.sockets[x].user = u}
      first == CHOOSE x \in mine : \A y \in mine : x <= y
      playerId == IF mine # {} THEN sv.connectedPlayers[first]
                  ELSE IF NumPlayers(g) > 0 THEN g.players[1].id ELSE "none"
  IN  IF ~sv.stored \/ playerId = "none"
      THEN [status |-> 404, playerId |-> "none", body |-> GetPlayerGameState(g, "none")]
      ELSE [status |-> 200, playerId |-> playerId, body |-> GetPlayerGameState(g, playerId)]

\* broadcastGameState(gameId): the sockets that are sent a snapshot, each
\* with the player the snapshot is made for
BroadcastGameState(sv, data) ==
  LET g == FromJSON(data)
      SocketOf(pid) ==
        LET byEntry == {x \in Entries(sv) : sv.connectedPlayers[x] = pid}
        IN  IF byEntry # {} THEN CHOOSE x \in byEntry : \A y \in byEntry : x <= y
            ELSE sv.userIdToSocketId[UserOfPlayer(pid)]
  IN  IF ~sv.stored THEN {}
      ELSE {[socket |-> SocketOf(g.players[i].id), playerId |-> g.players[i].id,
             body |-> GetPlayerGameState(g, g.players[i].id)] :
              i \in {j \in 1..NumPlayers(g) :
                       /\ SocketOf(g.players[j].id) # 0
                       /\ sv.sockets[SocketOf(g.players[j].id)].live}}

\* user u owns the seat of player pid
OwnsSeat(u, pid) == u \in Users /\ pid # "none" /\ UserOfPlayer(pid) = u

\* C32: every snapshot produced for a user shows the hole cards of at most
\* the seat that user owns: the other seats are shown as a hole-card count,
\* and a game-state query for a user who owns no seat in the game receives
\* no hole cards.
C32_SnapshotsShowOwnCardsOnly ==
  /\ \A u \in QueryUsers :
       LET r == GameStateQuery(srv, cache, u)
       IN  /\ \A i \in DOMAIN r.body.gameState.players :
                r.body.gameState.players[i].holeCards \in Nat
           /\ (r.status = 200 /\ r.body.myCards # <<>>) => OwnsSeat(u, r.playerId)
  /\ \A m \in BroadcastGameState(srv, cache) :
       m.body.myCards # <<>> => OwnsSeat(srv.sockets[m.socket].user, m.playerId)

\* the seats of the stored game that belong to user u
SeatsOf(u) ==
  IF ~srv.stored \/ u \notin Users THEN {}
  ELSE {i \in 1..NumPlayers(FromJSON(cache)) : UserOfPlayer(FromJSON(cache).players[i].id) = u}

\* C33: an agent action whose (userId, game) pair does not identify exactly
\* one seat of that game is refused and changes nothing; an agent action is
\* never applied on behalf of a seat of another user.
C33_AgentActsForOwnSeatOnly ==
  \A u \in AgentUsers : \A action \in TableActions :
    LET r == AgentAction(World, u, action)
    IN  /\ Cardinality(SeatsOf(u)) # 1 => (r.status # 200 /\ r.w = World)
        /\ r.status = 200 => OwnsSeat(u, r.playerId)

\* C34: the sequence of state updates delivered to a connected client is
\* exactly the sequence of states produced by the admitted transitions of
\* the table, in the same order, with no state skipped, repeated or
\* reordered: the i-th update emitted carries the i-th state saved.
C34_UpdatesFollowTransitions ==
  \A i \in DOMAIN srv.sent : srv.made[srv.sent[i]] = srv.made[i]

\* it is a seat's turn in a betting stage of a hand with an action timeout
TurnOpen ==
  /\ game.stage \in BettingStages
  /\ game.config.actionTimeoutSeconds > 0
\* the deadline of the current turn
TurnDeadline == game.actionStartTime + game.config.actionTimeoutSeconds

\* C35: whenever it is a seat's turn in a betting stage of a hand with a
\* configured action timeout, an action timer is armed for the table and it
\* is due at that seat's deadline, whichever path gave the seat the turn; an
\* armed timer is never the one of an earlier turn.
C35_TurnHasItsTimer ==
  TurnOpen => (srv.armed /\ srv.at = TurnDeadline)

(***************************************************************************)
(* Properties of the hand evaluator                                        *)
(***************************************************************************)
Sign(n) == IF n > 0 THEN 1 ELSE IF n < 0 THEN -1 ELSE 0

\* C36: a straight or straight flush is ranked by the top card of its run,
\* A-2-3-4-5 counting as five-high: of two straights, or of two straight
\* flushes, the one with the higher top card wins and equal tops tie, so the
\* wheel loses to every other run of its kind; and only 10-J-Q-K-A of one
\* suit is evaluated as the highest straight flush.
C36_RunsRankedByTopCard ==
  srv.done =>
    /\ (srv.hand1.suited = srv.hand2.suited) =>
         Sign(srv.compared) = Sign(srv.hand1.top - srv.hand2.top)
    /\ (srv.eval1.rank = ROYAL_FLUSH) <=> (srv.hand1.suited /\ srv.hand1.top = 14)
    /\ (srv.eval2.rank = ROYAL_FLUSH) <=> (srv.hand2.suited /\ srv.hand2.top = 14)

(***************************************************************************)
(* Properties of the start of the first hand                               *)
(***************************************************************************)
\* C37: when the connections that make a table ready are handled
\* concurrently, startHand is executed exactly once for the table: never
\* more than once, and once every connection handler has returned with two
\* seated users connected, exactly once.
C37_StartHandExactlyOnce ==
  /\ hands <= 1
  /\ (/\ \A c \in DOMAIN srv.calls : srv.calls[c].pc \in StartReturned
      /\ Cardinality(srv.tableReadiness.seatedPlayers
                       \cap srv.tableReadiness.connectedPlayers) >= 2)
       => (hands = 1 /\ game.stage = "preflop" /\ game.pot = 3)

\* a connection found the table already being started by a connection whose
\* handler was still awaiting, and the hand has been started
C37_Witness ==
  /\ hands = 1
  /\ \E c \in DOMAIN srv.calls : srv.calls[c].overlapped
  /\ \A c \in DOMAIN srv.calls : srv.calls[c].pc \in StartReturned

(***************************************************************************)
(* Properties of the chips                                                 *)
(***************************************************************************)
\* the chips at the table: the stacks and the pot
ChipsInPlay(g) == TotalStacks(g) + g.pot

\* the seats paid by the step
Awarded == {i \in 1..NumPlayers(game) : game'.players[i].stack > game.players[i].stack}

\* C38: chips are conserved across a hand: startHand moves chips from the
\* stacks to the pot only, every step of a hand before the award keeps the
\* sum of the stacks and the pot, the award pays the pot to the stacks up to
\* a split remainder smaller than the number of winners, and after the award
\* the stacks do not change until the next hand starts.
C38_ChipsConserved ==
  [][/\ last'.op = "startHand" => ChipsInPlay(game') = TotalStacks(game)
     /\ (last'.op # "startHand" /\ game.stage # "complete" /\ game'.stage # "complete")
          => ChipsInPlay(game') = ChipsInPlay(game)
     /\ (last'.op # "startHand" /\ game.stage # "complete" /\ game'.stage = "complete")
          => /\ TotalStacks(game') <= ChipsInPlay(game)
             /\ ChipsInPlay(game) - TotalStacks(game') < Cardinality(Awarded) \/ game.pot = 0
     /\ (last'.op # "startHand" /\ game.stage = "complete")
          => TotalStacks(game') = TotalStacks(game)]_vars

(***************************************************************************)
(* Properties of the roles                                                 *)
(***************************************************************************)
\* the ids of the dealer, the small blind, the big blind and the current
\* seat of g
Roles(g) ==
  [dealer |-> PlayerAt(g, g.dealerIndex).id,
   smallBlind |-> PlayerAt(g, g.smallBlindIndex).id,
   bigBlind |-> PlayerAt(g, g.bigBlindIndex).id,
   current |-> PlayerAt(g, g.currentPlayerIndex).id]

\* C39: adding a seat leaves the roles of the existing seats untouched: the
\* players who are dealer, small blind, big blind and current seat before a
\* successful addPlayer are the same players after it.
C39_AddPlayerKeepsRoles ==
  [][(last'.op = "addPlayer" /\ last'.valid) => Roles(game') = Roles(game)]_vars

(***************************************************************************)
(* Properties of the next hand                                             *)
(***************************************************************************)
\* the step is the next-hand callback starting a hand
NextHandStarts == HandStarts /\ srv'.nextHands # srv.nextHands

\* the ids of the players of the game data, in seat order
SeatIds(data) == Tup([i \in 1..NumPlayers(FromJSON(data)) |-> FromJSON(data).players[i].id])

\* C40: the start of the next hand, three seconds after a hand completes, is
\* applied to the latest persisted state of the table: the game is still
\* stored when the callback runs, and the seats persisted just before it,
\* with every seat added or removed during the three seconds, are the seats
\* in the cache after the next hand has started.
C40_NextHandOnLatestState ==
  [][NextHandStarts => (srv.stored /\ SeatIds(cache') = SeatIds(cache))]_vars

====
